---- MODULE Spec2Model ----
(***************************************************************************)
(* Session orchestration layer of the peer-to-peer chat client:            *)
(*   - the network background task (src/src/p2p/task.rs),                  *)
(*   - the client side of its command/event channels                       *)
(*     (src/src/p2p/service.rs),                                           *)
(*   - the translation worker (src/src/translation_service.rs),            *)
(*   - the chat session state and its per-tick update                      *)
(*     (src/src/tui/chat_state.rs, src/src/entities/chat.rs).              *)
(***************************************************************************)
EXTENDS Integers, Sequences, FiniteSets, TLC

\* ------------------------------------------------------------------------
\* Bounds of the model
\* ------------------------------------------------------------------------
MaxSubs == 2
MaxCommands == 3
MaxInbound == 2
MaxBuffered == 1
MaxLocal == 1
MaxLangChanges == 1

\* calls of add_message made by the concurrent callers
MaxIdCalls == 4

\* input lines submitted in the specification of the outgoing path
MaxSubmitted == 2

\* calls of Room::new in the specification of the room identifiers
MaxRooms == 2

\* rows inside the border of a pane of the chat screen
PageHeight == 2

\* the largest scroll offset the user scrolls down to
MaxOffset == 12

\* ------------------------------------------------------------------------
\* Value domains
\* ------------------------------------------------------------------------
\* A String is the sequence of its chars. The chars of the model: '-', a
\* letter that is no hex digit, a char of two UTF-8 bytes, and the hex digits.
TwoByteChar == "U+00E9"

HexLower == <<"0", "1", "2", "3", "4", "5", "6", "7", "8", "9",
              "a", "b", "c", "d", "e", "f">>

HexUpper == <<"0", "1", "2", "3", "4", "5", "6", "7", "8", "9",
              "A", "B", "C", "D", "E", "F">>

Alphabet == <<"-", "z", TwoByteChar, "A", "B", "C", "D", "E", "F">> \o HexLower

\* Hash::new(name.as_bytes()): BLAKE3, taken as free of collisions: the
\* number the chars of the name spell in base Len(Alphabet) + 1.
CharCode(c) == CHOOSE i \in 1..Len(Alphabet) : Alphabet[i] = c

RECURSIVE Hash_new(_)
Hash_new(name) ==
    IF name = <<>> THEN 0
    ELSE CharCode(Head(name)) + (Len(Alphabet) + 1) * Hash_new(Tail(name))

\* ChatGroup values (topics): the hashes of two room names.
GroupA == Hash_new(<<"z">>)

GroupB == Hash_new(<<"z", "-", "z">>)

Groups == {GroupA, GroupB}

\* no ChatGroup
NoGroup == -1

\* Message contents and sender ids.
Contents == {"hi"}

\* input lines the user may submit in the specification of the outgoing path
Inputs == {"hi", "yo"}

Senders == {"peer"}

\* Error texts (e.to_string()) of create_network, of network.subscribe, of the
\* outbound sink and of serde_json.
CreateNetworkErrors == {"bind failed"}

SubscribeErrors == {"subscribe failed"}

SendErrors == {"channel closed"}

SerdeErrors == {"invalid json"}

\* SystemTime values relative to UNIX_EPOCH: a negative one is before it.
Timestamps == {-1, 1}

Languages == {"Spanish", "French"}

\* NetworkMessage { content, timestamp, sender_id }
NetworkMessage(c, t, s) == [content |-> c, timestamp |-> t, sender_id |-> s]

NetworkMessages == [content : Contents, timestamp : Timestamps, sender_id : Senders]

NoMessage == [content |-> "", timestamp |-> 0, sender_id |-> ""]

\* NetworkCommand
Cmd_Subscribe(g) == [type |-> "Subscribe", group |-> g, msg |-> NoMessage]

Cmd_SendMessage(m) == [type |-> "SendMessage", group |-> NoGroup, msg |-> m]

Cmd_Unsubscribe == [type |-> "Unsubscribe", group |-> NoGroup, msg |-> NoMessage]

\* NetworkEvent and NetworkError
Ev_MessageReceived(m) ==
    [type |-> "MessageReceived", kind |-> "", detail |-> "", group |-> NoGroup, msg |-> m]

Ev_Subscribed(g) ==
    [type |-> "Subscribed", kind |-> "", detail |-> "", group |-> g, msg |-> NoMessage]

Ev_Error(k, d) ==
    [type |-> "Error", kind |-> k, detail |-> d, group |-> NoGroup, msg |-> NoMessage]

\* ------------------------------------------------------------------------
\* Wire format: serde_json of NetworkMessage
\* ------------------------------------------------------------------------
\* A byte payload is either not JSON at all or a JSON object, kept as the
\* sequence of its <<key, value>> members.
NotJson == [json |-> FALSE, fields |-> <<>>]

JsonObject(fs) == [json |-> TRUE, fields |-> fs]

HasField(fs, k) == \E i \in 1..Len(fs) : fs[i][1] = k

Field(fs, k) == fs[CHOOSE i \in 1..Len(fs) : fs[i][1] = k /\ \A j \in 1..(i-1) : fs[j][1] # k][2]

\* Variant of to_vec that writes the timestamp in place of the sender id.
to_vec_loses_sender(m) ==
    IF m.timestamp < 0
    THEN [ok |-> FALSE, bytes |-> NotJson]
    ELSE [ok |-> TRUE,
          bytes |-> JsonObject(<< <<"content", m.content>>,
                                  <<"timestamp", m.timestamp>>,
                                  <<"sender_id", "">> >>)]

\* serde_json::to_vec(&message): SystemTime serializes only from UNIX_EPOCH on.
to_vec(m) ==
    IF m.timestamp < 0
    THEN [ok |-> FALSE, bytes |-> NotJson]
    ELSE [ok |-> TRUE,
          bytes |-> JsonObject(<< <<"content", m.content>>,
                                  <<"timestamp", m.timestamp>>,
                                  <<"sender_id", m.sender_id>> >>)]

\* serde_json::from_slice::<NetworkMessage>(&bytes): unknown members are
\* ignored, a missing member is an error.
from_slice(b) ==
    IF b.json /\ HasField(b.fields, "content") /\ HasField(b.fields, "timestamp")
              /\ HasField(b.fields, "sender_id")
    THEN [ok |-> TRUE,
          msg |-> NetworkMessage(Field(b.fields, "content"),
                                 Field(b.fields, "timestamp"),
                                 Field(b.fields, "sender_id"))]
    ELSE [ok |-> FALSE, msg |-> NoMessage]

\* Payloads the substrate may hand over: a peer's message, the same with an
\* extra member, an object lacking a member, bytes that are not JSON.
Payloads ==
    { to_vec(NetworkMessage(c, 1, s)).bytes : c \in Contents, s \in Senders }
    \cup { JsonObject(<< <<"extra", "x">>, <<"content", c>>, <<"timestamp", 1>>,
                         <<"sender_id", "peer">> >>) : c \in Contents }
    \cup { JsonObject(<< <<"content", c>>, <<"timestamp", 1>> >>) : c \in Contents }
    \cup { NotJson }

\* FromNetwork items of an inbound stream.
FromNetwork_Gossip(b) == [kind |-> "GossipMessage", has_payload |-> TRUE, bytes |-> b]

FromNetwork_Sync(b) == [kind |-> "SyncMessage", has_payload |-> TRUE, bytes |-> b]

FromNetwork_SyncEmpty == [kind |-> "SyncMessage", has_payload |-> FALSE, bytes |-> NotJson]

FromNetworkItems ==
    { FromNetwork_Gossip(b) : b \in Payloads }
    \cup { FromNetwork_Sync(b) : b \in Payloads }
    \cup { FromNetwork_SyncEmpty }

\* ------------------------------------------------------------------------
\* State
\* ------------------------------------------------------------------------
VARIABLES
    \* network background task
    task_state,            \* "absent" | "starting" | "running" | "ended"
    current_subscription,  \* 0 (None) or the id of the held sink/stream pair
    subscription_ready,    \* 0 (None) or the id whose ready signal is held
    command_rx,            \* command queue: orchestrator -> task
    event_rx,              \* event queue: task -> orchestrator
    \* substrate
    streams,               \* streams[i]: the i-th subscription handed out
    to_network,            \* payloads accepted by an outbound sink
    inbound_count,         \* inbound items yielded, or events put on the queue, so far
    \* client of the task in the component-level specification
    commands_sent,
    \* configuration (src/src/config.rs), fixed for a run
    disable_ai,
    config_target_language,
    \* translation worker and its two queues
    worker_state,          \* "starting" | "idle" | "translating" | "exited"
    worker_request,        \* the request being translated
    request_rx,            \* request queue: orchestrator -> worker
    response_rx,           \* response queue: worker -> orchestrator
    \* ChatState and Chat
    pc,                    \* position of run: "update" | "events" | "draw" | "poll" | "done" |
                           \* "panicked"
    messages,              \* chat.messages
    next_id,               \* NEXT_ID
    chat_target_language,  \* chat.target_language
    translation_requests_sent,
    pending_outgoing_messages,
    subscribed,
    connection_status,
    chat_group,
    \* bookkeeping of the model
    local_count,           \* messages submitted by the user so far
    lang_changes,          \* target language changes so far
    requests_enqueued,     \* per message id: requests enqueued since the last change
    tick_lost,             \* SubscriptionLost in the latest event drain
    \* callers of Chat::add_message on chats of their own
    callers,               \* callers[c]: where c is in add_message, its chat, its id
    chats,                 \* chats[ch]: the messages of chat ch
    \* TuiApp and MainMenuState (src/src/tui/mod.rs, main_menu_state.rs)
    app_state,             \* "MainMenu" | "Chat" | "Quit"
    selected_option,       \* "CreateRoom" | "JoinRoom"
    input_mode,            \* "Menu" | "CreatingRoom" | "JoiningRoom"
    room_name_input,       \* text typed in the create-room input
    room_id_input,         \* text typed in the join-room input
    status_message,
    room,                  \* the room of the ChatState
    \* callers of Room::new and Room::from_identifier
    rooms,                 \* the rooms made by Room::new so far
    parse_result,          \* the outcome of the latest Room::from_identifier
    \* what the ChatState keeps for its panes
    show_translations,
    messages_scroll_state,
    translations_scroll_state

net_vars == <<task_state, current_subscription, subscription_ready, command_rx,
              event_rx, streams, to_network, inbound_count>>

worker_vars == <<worker_state, worker_request, request_rx, response_rx>>

config_vars == <<disable_ai, config_target_language>>

chat_vars == <<pc, messages, next_id, chat_target_language, translation_requests_sent,
               pending_outgoing_messages, subscribed, connection_status, chat_group,
               local_count, lang_changes, requests_enqueued, tick_lost>>

\* everything outside the network task, its queues and the substrate
id_vars == <<callers, chats>>

menu_vars == <<selected_option, input_mode, room_name_input, room_id_input,
               status_message>>

room_vars == <<rooms, parse_result>>

app_vars == <<app_state, menu_vars, room, room_vars>>

view_vars == <<show_translations, messages_scroll_state, translations_scroll_state>>

session_vars == <<worker_vars, config_vars, chat_vars, id_vars, app_vars, view_vars>>

vars == <<task_state, current_subscription, subscription_ready, command_rx,
          event_rx, streams, to_network, inbound_count, commands_sent,
          disable_ai, config_target_language,
          worker_state, worker_request, request_rx, response_rx,
          pc, messages, next_id, chat_target_language, translation_requests_sent,
          pending_outgoing_messages, subscribed, connection_status, chat_group,
          local_count, lang_changes, requests_enqueued, tick_lost, callers, chats,
          app_state, selected_option, input_mode, room_name_input, room_id_input,
          status_message, room, rooms, parse_result, show_translations,
          messages_scroll_state, translations_scroll_state>>

\* ------------------------------------------------------------------------
\* Network background task (src/src/p2p/task.rs)
\* ------------------------------------------------------------------------
\* event_tx.send(event)
Emit(ev) == event_rx' = Append(event_rx, ev)

\* Variant of NetworkTaskState::new whose caller goes on into the select loop
\* after reporting the failure.
NetworkTaskState_new_continues ==
    /\ task_state = "starting"
    /\ \/ /\ task_state' = "running"
          /\ UNCHANGED event_rx
       \/ \E e \in CreateNetworkErrors :
             /\ Emit(Ev_Error("NetworkCreationFailed", e))
             /\ task_state' = "running"
    /\ UNCHANGED <<current_subscription, subscription_ready, command_rx, streams,
                   to_network, inbound_count, commands_sent, session_vars>>

\* NetworkTaskState::new, as called first by network_background_task:
\* create_network() succeeds or fails with an error text.
NetworkTaskState_new ==
    /\ task_state = "starting"
    /\ \/ /\ task_state' = "running"
          /\ UNCHANGED event_rx
       \/ \E e \in CreateNetworkErrors :
             /\ Emit(Ev_Error("NetworkCreationFailed", e))
             /\ task_state' = "ended"
    /\ UNCHANGED <<current_subscription, subscription_ready, command_rx, streams,
                   to_network, inbound_count, commands_sent, session_vars>>

\* Dropping the held (tx, rx) pair drops what its stream has buffered.
DropHeld(strs, held) ==
    IF held = 0 THEN strs ELSE [strs EXCEPT ![held].buf = <<>>]

\* Variant of handle_subscribe_command that keeps a subscription it already
\* holds and lets the new pair go.
handle_subscribe_command_keeps_prior(group) ==
    \/ /\ Len(streams) < MaxSubs
       /\ streams' = Append(streams, [group |-> group, ended |-> FALSE, buf |-> <<>>])
       /\ current_subscription' =
             (IF current_subscription = 0 THEN Len(streams) + 1
                                          ELSE current_subscription)
       /\ subscription_ready' = current_subscription'
       /\ Emit(Ev_Subscribed(group))
       /\ UNCHANGED to_network
    \/ \E e \in SubscribeErrors :
          /\ Emit(Ev_Error("SubscriptionFailed", e))
          /\ UNCHANGED <<streams, current_subscription, subscription_ready, to_network>>

\* handle_subscribe_command: network.subscribe(chat_group) succeeds with a
\* fresh (tx, rx, ready) or fails with an error text.
handle_subscribe_command(group) ==
    \/ /\ Len(streams) < MaxSubs
       /\ streams' = Append(DropHeld(streams, current_subscription),
                             [group |-> group, ended |-> FALSE, buf |-> <<>>])
       /\ current_subscription' = Len(streams) + 1
       /\ subscription_ready' = Len(streams) + 1
       /\ Emit(Ev_Subscribed(group))
       /\ UNCHANGED to_network
    \/ \E e \in SubscribeErrors :
          /\ Emit(Ev_Error("SubscriptionFailed", e))
          /\ UNCHANGED <<streams, current_subscription, subscription_ready, to_network>>

\* Variant of handle_send_message_command that says nothing when no
\* subscription is held.
handle_send_message_command_silent(message) ==
    /\ UNCHANGED <<streams, current_subscription, subscription_ready>>
    /\ IF current_subscription # 0
       THEN IF to_vec(message).ok
            THEN \/ /\ to_network' = Append(to_network,
                                            [stream |-> current_subscription,
                                             bytes |-> to_vec(message).bytes])
                    /\ UNCHANGED event_rx
                 \/ \E e \in SendErrors :
                       /\ Emit(Ev_Error("SendFailed", e))
                       /\ UNCHANGED to_network
            ELSE \E e \in SerdeErrors :
                    /\ Emit(Ev_Error("SerializationFailed", e))
                    /\ UNCHANGED to_network
       ELSE UNCHANGED <<event_rx, to_network>>

\* Variant of handle_send_message_command that gives up the subscription when
\* tx.send(..) fails.
handle_send_message_command_teardown(message) ==
    IF current_subscription # 0
    THEN IF to_vec(message).ok
         THEN \/ /\ to_network' = Append(to_network,
                                         [stream |-> current_subscription,
                                          bytes |-> to_vec(message).bytes])
                 /\ UNCHANGED <<event_rx, streams, current_subscription,
                                subscription_ready>>
              \/ \E e \in SendErrors :
                    /\ Emit(Ev_Error("SendFailed", e))
                    /\ current_subscription' = 0
                    /\ subscription_ready' = 0
                    /\ streams' = DropHeld(streams, current_subscription)
                    /\ UNCHANGED to_network
         ELSE \E e \in SerdeErrors :
                 /\ Emit(Ev_Error("SerializationFailed", e))
                 /\ UNCHANGED <<to_network, streams, current_subscription,
                                subscription_ready>>
    ELSE /\ Emit(Ev_Error("ChannelClosed", ""))
         /\ UNCHANGED <<to_network, streams, current_subscription, subscription_ready>>

\* handle_send_message_command: tx.send(..) fails when the substrate has
\* dropped the receiving end of the sink.
handle_send_message_command(message) ==
    /\ UNCHANGED <<streams, current_subscription, subscription_ready>>
    /\ IF current_subscription # 0
       THEN IF to_vec(message).ok
            THEN \/ /\ to_network' = Append(to_network,
                                            [stream |-> current_subscription,
                                             bytes |-> to_vec(message).bytes])
                    /\ UNCHANGED event_rx
                 \/ \E e \in SendErrors :
                       /\ Emit(Ev_Error("SendFailed", e))
                       /\ UNCHANGED to_network
            ELSE \E e \in SerdeErrors :
                    /\ Emit(Ev_Error("SerializationFailed", e))
                    /\ UNCHANGED to_network
       ELSE /\ Emit(Ev_Error("ChannelClosed", ""))
            /\ UNCHANGED to_network

\* Variant of handle_unsubscribe_command that gives up the ready signal and
\* keeps the sink and the stream.
handle_unsubscribe_command_keeps_pair ==
    /\ subscription_ready' = 0
    /\ UNCHANGED <<current_subscription, streams, to_network, event_rx>>

\* handle_unsubscribe_command
handle_unsubscribe_command ==
    /\ current_subscription' = 0
    /\ subscription_ready' = 0
    /\ streams' = DropHeld(streams, current_subscription)
    /\ UNCHANGED <<to_network, event_rx>>

\* handle_command
handle_command(command) ==
    CASE command.type = "Subscribe" -> handle_subscribe_command(command.group)
      [] command.type = "SendMessage" -> handle_send_message_command(command.msg)
      [] command.type = "Unsubscribe" -> handle_unsubscribe_command

\* select! branch 1 of network_background_task: a command is available.
TaskRecvCommand ==
    /\ task_state = "running"
    /\ command_rx # <<>>
    /\ command_rx' = Tail(command_rx)
    /\ handle_command(Head(command_rx))
    /\ UNCHANGED <<task_state, inbound_count, commands_sent, session_vars>>

\* Variant of handle_network_message(Some(item)) that reports a sync payload
\* it cannot parse.
handle_network_message_some_reports_sync(item) ==
    /\ UNCHANGED <<current_subscription, subscription_ready>>
    /\ IF item.kind = "GossipMessage" \/ item.has_payload
       THEN IF from_slice(item.bytes).ok
            THEN Emit(Ev_MessageReceived(from_slice(item.bytes).msg))
            ELSE \E e \in SerdeErrors : Emit(Ev_Error("SerializationFailed", e))
       ELSE UNCHANGED event_rx

\* handle_network_message(Some(item))
handle_network_message_some(item) ==
    /\ UNCHANGED <<current_subscription, subscription_ready>>
    /\ IF item.kind = "GossipMessage"
       THEN IF from_slice(item.bytes).ok
            THEN Emit(Ev_MessageReceived(from_slice(item.bytes).msg))
            ELSE \E e \in SerdeErrors : Emit(Ev_Error("SerializationFailed", e))
       ELSE IF item.has_payload /\ from_slice(item.bytes).ok
            THEN Emit(Ev_MessageReceived(from_slice(item.bytes).msg))
            ELSE UNCHANGED event_rx

\* Variant of handle_network_message(None) that reports the loss and keeps the
\* ended pair.
handle_network_message_none_keeps ==
    /\ UNCHANGED <<current_subscription, subscription_ready>>
    /\ Emit(Ev_Error("SubscriptionLost", ""))

\* handle_network_message(None)
handle_network_message_none ==
    /\ current_subscription' = 0
    /\ subscription_ready' = 0
    /\ Emit(Ev_Error("SubscriptionLost", ""))

\* select! branch 2: rx.recv() of the held stream yields its oldest item.
TaskRecvFromNetwork ==
    /\ task_state = "running"
    /\ current_subscription # 0
    /\ streams[current_subscription].buf # <<>>
    /\ streams' = [streams EXCEPT ![current_subscription].buf = Tail(@)]
    /\ handle_network_message_some(Head(streams[current_subscription].buf))
    /\ UNCHANGED <<task_state, command_rx, to_network, inbound_count, commands_sent,
                   session_vars>>

\* select! branch 2: rx.recv() yields None, the held stream is drained and ended.
TaskRecvStreamEnd ==
    /\ task_state = "running"
    /\ current_subscription # 0
    /\ streams[current_subscription].buf = <<>>
    /\ streams[current_subscription].ended
    /\ handle_network_message_none
    /\ UNCHANGED <<task_state, command_rx, streams, to_network, inbound_count,
                   commands_sent, session_vars>>

\* Variant of the None arm of select! branch 1 that reports the closure of
\* the command queue before the task returns.
TaskRecvNone_reports ==
    /\ task_state = "running"
    /\ command_rx = <<>>
    /\ app_state = "Quit"
    /\ task_state' = "ended"
    /\ current_subscription' = 0
    /\ subscription_ready' = 0
    /\ streams' = DropHeld(streams, current_subscription)
    /\ Emit(Ev_Error("ChannelClosed", ""))
    /\ UNCHANGED <<command_rx, to_network, inbound_count, commands_sent, session_vars>>

\* select! branch 1: command_rx.recv() yields None, which it does once the
\* queue is empty and every sender is dropped. The senders are the one the
\* ChatState's P2PService holds (the one initialize_channels returns is
\* dropped by with_room at once), so they are gone when the ChatState is
\* replaced by the Quit state. The task breaks out of its loop and returns,
\* dropping its state with the pair it holds.
TaskRecvNone ==
    /\ task_state = "running"
    /\ command_rx = <<>>
    /\ app_state = "Quit"
    /\ task_state' = "ended"
    /\ current_subscription' = 0
    /\ subscription_ready' = 0
    /\ streams' = DropHeld(streams, current_subscription)
    /\ UNCHANGED <<command_rx, event_rx, to_network, inbound_count, commands_sent,
                   session_vars>>

\* ------------------------------------------------------------------------
\* Substrate
\* ------------------------------------------------------------------------
\* The substrate puts an item into the inbound stream the task holds (the
\* receiving end of any other stream has been dropped).
SubstrateDelivers ==
    /\ current_subscription # 0
    /\ ~streams[current_subscription].ended
    /\ Len(streams[current_subscription].buf) < MaxBuffered
    /\ inbound_count < MaxInbound
    /\ inbound_count' = inbound_count + 1
    /\ \E item \in FromNetworkItems :
          streams' = [streams EXCEPT ![current_subscription].buf = Append(@, item)]
    /\ UNCHANGED <<task_state, current_subscription, subscription_ready, command_rx,
                   event_rx, to_network, commands_sent, session_vars>>

\* The substrate ends the inbound stream the task holds.
SubstrateEndsStream ==
    /\ current_subscription # 0
    /\ ~streams[current_subscription].ended
    /\ streams' = [streams EXCEPT ![current_subscription].ended = TRUE]
    /\ UNCHANGED <<task_state, current_subscription, subscription_ready, command_rx,
                   event_rx, to_network, inbound_count, commands_sent, session_vars>>

\* ------------------------------------------------------------------------
\* Client side of the channels (src/src/p2p/service.rs)
\* ------------------------------------------------------------------------
\* command_tx.send(command): fails, leaving the queue as it is, once the task
\* has returned and dropped the receiving end.
SendCommands(commands) ==
    command_rx' = IF task_state = "ended" THEN command_rx ELSE command_rx \o commands

SendCommand(command) == SendCommands(<<command>>)

\* ChatNetworkService::subscribe
subscribe(group) == SendCommand(Cmd_Subscribe(group))

\* ChatNetworkService::send_message
send_message(message) == SendCommand(Cmd_SendMessage(message))

\* A client of the task enqueues any command.
ClientCommand ==
    /\ commands_sent < MaxCommands
    /\ commands_sent' = commands_sent + 1
    /\ \/ \E g \in Groups : subscribe(g)
       \/ \E m \in NetworkMessages : send_message(m)
       \/ SendCommand(Cmd_Unsubscribe)
    /\ UNCHANGED <<task_state, current_subscription, subscription_ready, event_rx,
                   streams, to_network, inbound_count, session_vars>>

\* ChatNetworkService::try_receive_event, result discarded.
ClientTakesEvent ==
    /\ event_rx # <<>>
    /\ event_rx' = Tail(event_rx)
    /\ UNCHANGED <<task_state, current_subscription, subscription_ready, command_rx,
                   streams, to_network, inbound_count, commands_sent, session_vars>>


\* ------------------------------------------------------------------------
\* Translation worker (src/src/translation_service.rs, src/src/translation.rs)
\* ------------------------------------------------------------------------
\* Option<String>
None == [some |-> FALSE, value |-> <<>>]

Some(v) == [some |-> TRUE, value |-> v]

TranslationRequest(id, content, language) ==
    [message_id |-> id, content |-> content, target_language |-> language]

TranslationResponse(id, translation, language) ==
    [message_id |-> id, translation |-> translation, language |-> language]

NoRequest == TranslationRequest(-1, "", "")

\* Texts the language engine may return, as sequences of characters.
LlmOutputs == { <<"t">>, <<" ", "t", " ">> }

RECURSIVE trim_start(_)
trim_start(text) ==
    IF text # <<>> /\ Head(text) = " " THEN trim_start(Tail(text)) ELSE text

RECURSIVE trim_end(_)
trim_end(text) ==
    IF text # <<>> /\ text[Len(text)] = " "
    THEN trim_end(SubSeq(text, 1, Len(text) - 1))
    ELSE text

\* str::trim
trim(text) == trim_end(trim_start(text))

\* main: the flag is set, before the worker is spawned, iff AI is disabled.
IS_TRANSLATION_WORKER_DISABLED == disable_ai

\* Variant of translation_worker up to its loop that does not look at the flag.
translation_worker_start_ignores_flag ==
    /\ worker_state = "starting"
    /\ \/ worker_state' = "idle"
       \/ worker_state' = "exited"
    /\ UNCHANGED <<worker_request, request_rx, response_rx>>
    /\ UNCHANGED <<net_vars, commands_sent, config_vars, id_vars, app_vars, view_vars, chat_vars>>

\* translation_worker up to its loop: the flag check, then get_llm().
translation_worker_start ==
    /\ worker_state = "starting"
    /\ IF IS_TRANSLATION_WORKER_DISABLED
       THEN worker_state' = "exited"
       ELSE \/ worker_state' = "idle"
            \/ worker_state' = "exited"
    /\ UNCHANGED <<worker_request, request_rx, response_rx>>
    /\ UNCHANGED <<net_vars, commands_sent, config_vars, id_vars, app_vars, view_vars, chat_vars>>

\* Variant of request_rx.recv() that yields the newest request.
translation_worker_recv_newest ==
    /\ worker_state = "idle"
    /\ request_rx # <<>>
    /\ worker_request' = request_rx[Len(request_rx)]
    /\ request_rx' = SubSeq(request_rx, 1, Len(request_rx) - 1)
    /\ worker_state' = "translating"
    /\ UNCHANGED response_rx
    /\ UNCHANGED <<net_vars, commands_sent, config_vars, id_vars, app_vars, view_vars, chat_vars>>

\* Variant of request_rx.recv() in which a worker that has returned still
\* takes requests.
translation_worker_recv_after_exit ==
    /\ worker_state \in {"idle", "exited"}
    /\ request_rx # <<>>
    /\ worker_request' = Head(request_rx)
    /\ request_rx' = Tail(request_rx)
    /\ worker_state' = "translating"
    /\ UNCHANGED response_rx
    /\ UNCHANGED <<net_vars, commands_sent, config_vars, id_vars, app_vars, view_vars, chat_vars>>

\* request_rx.recv() yields the oldest request.
translation_worker_recv ==
    /\ worker_state = "idle"
    /\ request_rx # <<>>
    /\ worker_request' = Head(request_rx)
    /\ request_rx' = Tail(request_rx)
    /\ worker_state' = "translating"
    /\ UNCHANGED response_rx
    /\ UNCHANGED <<net_vars, commands_sent, config_vars, id_vars, app_vars, view_vars, chat_vars>>

\* Variant of the loop body that puts a request whose translation failed back
\* on the queue.
translation_worker_translate_retries ==
    /\ worker_state = "translating"
    /\ \/ /\ \E out \in LlmOutputs :
                response_rx' = Append(response_rx,
                                      TranslationResponse(worker_request.message_id,
                                                          trim(out),
                                                          worker_request.target_language))
          /\ UNCHANGED request_rx
       \/ /\ request_rx' = Append(request_rx, worker_request)
          /\ UNCHANGED response_rx
    /\ worker_state' = "idle"
    /\ worker_request' = NoRequest
    /\ UNCHANGED <<net_vars, commands_sent, config_vars, id_vars, app_vars, view_vars, chat_vars>>

\* Translator::translate returns the trimmed text of the engine or its error;
\* the worker answers in the first case only.
translation_worker_translate ==
    /\ worker_state = "translating"
    /\ \/ \E out \in LlmOutputs :
             response_rx' = Append(response_rx,
                                   TranslationResponse(worker_request.message_id,
                                                       trim(out),
                                                       worker_request.target_language))
       \/ UNCHANGED response_rx
    /\ worker_state' = "idle"
    /\ worker_request' = NoRequest
    /\ UNCHANGED request_rx
    /\ UNCHANGED <<net_vars, commands_sent, config_vars, id_vars, app_vars, view_vars, chat_vars>>

\* translation_worker up to its loop when AI is enabled and get_llm() returns
\* the translator.
translation_worker_start_Ok ==
    /\ worker_state = "starting"
    /\ ~IS_TRANSLATION_WORKER_DISABLED
    /\ worker_state' = "idle"
    /\ UNCHANGED <<worker_request, request_rx, response_rx>>
    /\ UNCHANGED <<net_vars, commands_sent, config_vars, id_vars, app_vars, view_vars, chat_vars>>

\* The loop body when Translator::translate returns Ok: the worker answers.
translation_worker_translate_Ok ==
    /\ worker_state = "translating"
    /\ \E out \in LlmOutputs :
          response_rx' = Append(response_rx,
                                TranslationResponse(worker_request.message_id,
                                                    trim(out),
                                                    worker_request.target_language))
    /\ worker_state' = "idle"
    /\ worker_request' = NoRequest
    /\ UNCHANGED request_rx
    /\ UNCHANGED <<net_vars, commands_sent, config_vars, id_vars, app_vars, view_vars, chat_vars>>

\* ------------------------------------------------------------------------
\* Chat (src/src/entities/chat.rs)
\* ------------------------------------------------------------------------
Now == 1

Username == "Anonymous"

DefaultChatLanguage == "Spanish"

\* Message::new with the id taken from NEXT_ID
Message_new(id, content, sender) ==
    [id |-> id, content |-> content, timestamp |-> Now,
     translation |-> None, translation_language |-> None, sender |-> sender]

\* Chat::add_message
add_message(msgs, id, content, sender) == Append(msgs, Message_new(id, content, sender))

\* Variant of update_translation that writes onto the newest message.
update_translation_newest(msgs, language, message_id, translation) ==
    IF msgs # <<>>
    THEN [msgs EXCEPT ![Len(msgs)].translation = Some(translation),
                      ![Len(msgs)].translation_language = Some(language)]
    ELSE msgs

\* Variant of update_translation that sets the translation and leaves the
\* translation language as it is.
update_translation_text_only(msgs, language, message_id, translation) ==
    IF \E i \in 1..Len(msgs) : msgs[i].id = message_id
    THEN LET i == CHOOSE k \in 1..Len(msgs) :
                      /\ msgs[k].id = message_id
                      /\ \A j \in 1..(k-1) : msgs[j].id # message_id
         IN [msgs EXCEPT ![i].translation = Some(translation)]
    ELSE msgs

\* Chat::update_translation: the first message with that id, if any.
update_translation(msgs, language, message_id, translation) ==
    IF \E i \in 1..Len(msgs) : msgs[i].id = message_id
    THEN LET i == CHOOSE k \in 1..Len(msgs) :
                      /\ msgs[k].id = message_id
                      /\ \A j \in 1..(k-1) : msgs[j].id # message_id
         IN [msgs EXCEPT ![i].translation = Some(translation),
                         ![i].translation_language = Some(language)]
    ELSE msgs

\* Chat::set_target_language, the part that clears the messages
clear_translations(msgs) ==
    [i \in 1..Len(msgs) |->
        [msgs[i] EXCEPT !.translation = None, !.translation_language = None]]

\* ------------------------------------------------------------------------
\* Room (src/src/room_manager.rs)
\* ------------------------------------------------------------------------
\* char::len_utf8
len_utf8(c) == IF c = TwoByteChar THEN 2 ELSE 1

\* str::len: the length in bytes, one for each char and one more for each
\* char of two bytes
str_len(s) == Len(s) + Cardinality({i \in 1..Len(s) : len_utf8(s[i]) = 2})

\* str::is_char_boundary
is_char_boundary(s, index) ==
    \E k \in 0..Len(s) : str_len(SubSeq(s, 1, k)) = index

\* the number of chars that end at byte index `index`, a char boundary of s
CharsUpTo(s, index) ==
    CHOOSE k \in 0..Len(s) : str_len(SubSeq(s, 1, k)) = index

\* &s[..index] and &s[index..], for a char boundary
slice_to(s, index) == SubSeq(s, 1, CharsUpTo(s, index))

slice_from(s, index) == SubSeq(s, CharsUpTo(s, index) + 1, Len(s))

NotFound == -1

\* str::find(char): the byte index of the first occurrence
find(s, c) ==
    IF \E k \in 1..Len(s) : s[k] = c
    THEN LET k == CHOOSE i \in 1..Len(s) : s[i] = c /\ \A j \in 1..(i-1) : s[j] # c
         IN str_len(SubSeq(s, 1, k - 1))
    ELSE NotFound

starts_with(s, c) == s # <<>> /\ Head(s) = c

Rep(c, n) == [i \in 1..n |-> c]

\* The value of a hex digit of either case, NotFound for any other char.
HexValue(c) ==
    IF \E i \in 1..16 : HexLower[i] = c \/ HexUpper[i] = c
    THEN (CHOOSE i \in 1..16 : HexLower[i] = c \/ HexUpper[i] = c) - 1
    ELSE NotFound

\* Uuid: its 32 hex digits as numbers. The Display of a Uuid is the
\* hyphenated lower-case text of 36 chars.
UuidHyphens == {9, 14, 19, 24}

DigitIndex(i) == i - Cardinality({h \in UuidHyphens : h < i})

Uuid_to_string(uuid) ==
    [i \in 1..36 |-> IF i \in UuidHyphens THEN "-"
                     ELSE HexLower[uuid[DigitIndex(i)] + 1]]

\* Uuid::parse_str of a text of 36 bytes: the hyphenated form, either case.
Uuid_parse_str(text) ==
    IF /\ Len(text) = 36
       /\ \A i \in 1..36 : IF i \in UuidHyphens THEN text[i] = "-"
                           ELSE HexValue(text[i]) # NotFound
    THEN [ok |-> TRUE,
          uuid |-> [d \in 1..32 |->
                       HexValue(text[CHOOSE i \in 1..36 :
                                        i \notin UuidHyphens /\ DigitIndex(i) = d])]]
    ELSE [ok |-> FALSE, uuid |-> <<>>]

\* Uuid::new_v4: random digits, the version digit 4 and a variant digit 8..b.
\* The model has the Uuids whose random digits are all 0, all 1 or all 10.
UuidV4(r) == [d \in 1..32 |-> IF d = 13 THEN 4 ELSE IF d = 17 THEN 8 ELSE r]

Uuids == {UuidV4(0), UuidV4(1), UuidV4(10)}

\* Display of a Hash: 64 lower-case hex digits, the last one the lowest. The
\* hashes of the model are below 16^7, so the digits above the seventh are 0.
HexDigit(h, k) == IF k >= 7 THEN 0 ELSE (h \div (16 ^ k)) % 16

Hash_to_string(hash) == [i \in 1..64 |-> HexLower[HexDigit(hash, 64 - i) + 1]]

\* Room { hash, uuid, name, identifier }
Room(hash, uuid, name, identifier) ==
    [hash |-> hash, uuid |-> uuid, name |-> name, identifier |-> identifier]

NoRoom == Room(NotFound, <<>>, <<>>, <<>>)

\* Variant of Room_new whose hash depends on the Uuid as well.
Room_new_hashes_uuid(name, uuid) ==
    Room(Hash_new(name) + uuid[1] + 1, uuid, name,
         Hash_to_string(Hash_new(name)) \o <<"-">> \o Uuid_to_string(uuid)
             \o <<"-">> \o name)

\* Room::new with the Uuid that Uuid::new_v4 returned
Room_new(name, uuid) ==
    Room(Hash_new(name), uuid, name,
         Hash_to_string(Hash_new(name)) \o <<"-">> \o Uuid_to_string(uuid)
             \o <<"-">> \o name)

\* Result<Room>, and the panic of a slice that does not end at a char boundary
Ok(r) == [kind |-> "Ok", room |-> r, error |-> ""]

Err(e) == [kind |-> "Err", room |-> NoRoom, error |-> e]

Panic == [kind |-> "Panic", room |-> NoRoom, error |-> ""]

ErrNoDash == "Invalid room identifier format. Expected: hash-uuid-name"

ErrTooShort == "Invalid room identifier format. UUID section too short"

ErrNoNameDash == "Invalid room identifier format. Missing dash before name"

ErrUuid == "Invalid UUID in room identifier"

\* Room::to_chat_group and TopicId::id: the ChatGroup is the hash, its id the
\* 32 bytes of the hash.
to_chat_group(r) == r.hash

\* Variant of from_identifier that takes the text after the last '-' as the
\* name.
from_identifier_last_dash(identifier) ==
    LET first_dash == find(identifier, "-")
    IN IF first_dash = NotFound
       THEN Err(ErrNoDash)
       ELSE LET remainder == slice_from(identifier, first_dash + 1)
            IN IF str_len(remainder) < 36
               THEN Err(ErrTooShort)
               ELSE IF ~is_char_boundary(remainder, 36)
               THEN Panic
               ELSE LET uuid_str == slice_to(remainder, 36)
                        name_part == slice_from(remainder, 36)
                    IN IF ~starts_with(name_part, "-")
                       THEN Err(ErrNoNameDash)
                       ELSE LET last == CHOOSE k \in 1..Len(name_part) :
                                           /\ name_part[k] = "-"
                                           /\ \A j \in (k+1)..Len(name_part) :
                                                 name_part[j] # "-"
                                name == SubSeq(name_part, last + 1, Len(name_part))
                                uuid == Uuid_parse_str(uuid_str)
                            IN IF ~uuid.ok
                               THEN Err(ErrUuid)
                               ELSE Ok(Room(Hash_new(name), uuid.uuid, name,
                                            identifier))

\* Room::from_identifier
from_identifier(identifier) ==
    LET first_dash == find(identifier, "-")
    IN IF first_dash = NotFound
       THEN Err(ErrNoDash)
       ELSE LET remainder == slice_from(identifier, first_dash + 1)
            IN IF str_len(remainder) < 36
               THEN Err(ErrTooShort)
               ELSE IF ~is_char_boundary(remainder, 36)
               THEN Panic
               ELSE LET uuid_str == slice_to(remainder, 36)
                        name_part == slice_from(remainder, 36)
                    IN IF ~starts_with(name_part, "-")
                       THEN Err(ErrNoNameDash)
                       ELSE LET name == Tail(name_part)
                                uuid == Uuid_parse_str(uuid_str)
                            IN IF ~uuid.ok
                               THEN Err(ErrUuid)
                               ELSE Ok(Room(Hash_new(name), uuid.uuid, name,
                                            identifier))

\* ------------------------------------------------------------------------
\* ChatState (src/src/tui/chat_state.rs)
\* ------------------------------------------------------------------------
\* ConnectionStatus
Status(tag, detail) == [tag |-> tag, detail |-> detail]

Connecting == Status("Connecting", "")

Connected == Status("Connected", "")

Disconnected == Status("Disconnected", "")

StatusError(msg) == Status("Error", msg)

\* ids a message can get within the bounds
MessageIds == 0..(MaxLocal + MaxInbound - 1)

\* Variant of the response loop of update that applies the oldest response
\* and lets the others go.
process_translations_oldest_only(msgs, language, responses) ==
    IF responses = <<>>
    THEN msgs
    ELSE update_translation(msgs, language, Head(responses).message_id,
                            Head(responses).translation)

\* update, step 1: every available response is applied, oldest first.
RECURSIVE process_translations(_, _, _)
process_translations(msgs, language, responses) ==
    IF responses = <<>>
    THEN msgs
    ELSE process_translations(
             update_translation(msgs, language, Head(responses).message_id,
                                Head(responses).translation),
             language, Tail(responses))

\* Variant of translation_requests that does not look at the requested set.
RECURSIVE translation_requests_unchecked(_, _, _)
translation_requests_unchecked(msgs, sent, language) ==
    IF msgs = <<>>
    THEN <<>>
    ELSE IF ~Head(msgs).translation.some
         THEN <<TranslationRequest(Head(msgs).id, Head(msgs).content, language)>>
              \o translation_requests_unchecked(Tail(msgs), sent, language)
         ELSE translation_requests_unchecked(Tail(msgs), sent, language)

\* update, step 2: the requests sent for msgs, in list order, given the ids
\* already requested; every request is sent successfully.
RECURSIVE translation_requests(_, _, _)
translation_requests(msgs, sent, language) ==
    IF msgs = <<>>
    THEN <<>>
    ELSE IF ~Head(msgs).translation.some /\ Head(msgs).id \notin sent
         THEN <<TranslationRequest(Head(msgs).id, Head(msgs).content, language)>>
              \o translation_requests(Tail(msgs), sent \cup {Head(msgs).id}, language)
         ELSE translation_requests(Tail(msgs), sent, language)

\* request_tx.send succeeds as long as the worker holds the receiving end.
RequestChannelOpen == worker_state # "exited"

\* network_service.command_tx.is_some(): set by with_room, never reset.
CommandTxIsSome == TRUE

\* update, step 4: one SendMessage per queued content, in queue order.
outgoing_commands(pending) ==
    [i \in 1..Len(pending) |-> Cmd_SendMessage(NetworkMessage(pending[i], Now, Username))]

RequestIds(reqs) == { reqs[i].message_id : i \in 1..Len(reqs) }

\* Variant of update, lines 180-226, that issues its Subscribe and leaves the
\* subscribed flag as it is.
update_begin_leaves_flag ==
    /\ pc = "update"
    /\ app_state = "Chat"
    /\ pc' = "events"
    /\ LET msgs1 == process_translations(messages, chat_target_language, response_rx)
           reqs == IF disable_ai \/ ~RequestChannelOpen
                   THEN <<>>
                   ELSE translation_requests(msgs1, translation_requests_sent,
                                             config_target_language)
           do_subscribe == ~subscribed /\ CommandTxIsSome
       IN /\ messages' = msgs1
          /\ response_rx' = <<>>
          /\ request_rx' = request_rx \o reqs
          /\ translation_requests_sent' = translation_requests_sent \cup RequestIds(reqs)
          /\ requests_enqueued' =
                 [id \in MessageIds |->
                     requests_enqueued[id]
                     + Cardinality({i \in 1..Len(reqs) : reqs[i].message_id = id})]
          /\ subscribed' = subscribed
          /\ SendCommands((IF do_subscribe THEN <<Cmd_Subscribe(chat_group)>> ELSE <<>>)
                          \o outgoing_commands(pending_outgoing_messages))
    /\ pending_outgoing_messages' = <<>>
    /\ UNCHANGED <<next_id, chat_target_language, connection_status, chat_group,
                   local_count, lang_changes, tick_lost>>
    /\ UNCHANGED <<worker_state, worker_request, config_vars, id_vars, app_vars, view_vars, commands_sent>>
    /\ UNCHANGED <<task_state, current_subscription, subscription_ready, event_rx,
                   streams, to_network, inbound_count>>

\* Variant of update, lines 180-226, that issues a Subscribe whatever the
\* subscribed flag says.
update_begin_subscribes_always ==
    /\ pc = "update"
    /\ app_state = "Chat"
    /\ pc' = "events"
    /\ LET msgs1 == process_translations(messages, chat_target_language, response_rx)
           reqs == IF disable_ai \/ ~RequestChannelOpen
                   THEN <<>>
                   ELSE translation_requests(msgs1, translation_requests_sent,
                                             config_target_language)
           do_subscribe == CommandTxIsSome
       IN /\ messages' = msgs1
          /\ response_rx' = <<>>
          /\ request_rx' = request_rx \o reqs
          /\ translation_requests_sent' = translation_requests_sent \cup RequestIds(reqs)
          /\ requests_enqueued' =
                 [id \in MessageIds |->
                     requests_enqueued[id]
                     + Cardinality({i \in 1..Len(reqs) : reqs[i].message_id = id})]
          /\ subscribed' = (subscribed \/ do_subscribe)
          /\ SendCommands((IF do_subscribe THEN <<Cmd_Subscribe(chat_group)>> ELSE <<>>)
                          \o outgoing_commands(pending_outgoing_messages))
    /\ pending_outgoing_messages' = <<>>
    /\ UNCHANGED <<next_id, chat_target_language, connection_status, chat_group,
                   local_count, lang_changes, tick_lost>>
    /\ UNCHANGED <<worker_state, worker_request, config_vars, id_vars, app_vars, view_vars, commands_sent>>
    /\ UNCHANGED <<task_state, current_subscription, subscription_ready, event_rx,
                   streams, to_network, inbound_count>>

\* Variant of update, lines 180-226, that sends the queued messages and
\* leaves them in the queue.
update_begin_keeps_pending ==
    /\ pc = "update"
    /\ app_state = "Chat"
    /\ pc' = "events"
    /\ LET msgs1 == process_translations(messages, chat_target_language, response_rx)
           reqs == IF disable_ai \/ ~RequestChannelOpen
                   THEN <<>>
                   ELSE translation_requests(msgs1, translation_requests_sent,
                                             config_target_language)
           do_subscribe == ~subscribed /\ CommandTxIsSome
       IN /\ messages' = msgs1
          /\ response_rx' = <<>>
          /\ request_rx' = request_rx \o reqs
          /\ translation_requests_sent' = translation_requests_sent \cup RequestIds(reqs)
          /\ requests_enqueued' =
                 [id \in MessageIds |->
                     requests_enqueued[id]
                     + Cardinality({i \in 1..Len(reqs) : reqs[i].message_id = id})]
          /\ subscribed' = (subscribed \/ do_subscribe)
          /\ SendCommands((IF do_subscribe THEN <<Cmd_Subscribe(chat_group)>> ELSE <<>>)
                          \o outgoing_commands(pending_outgoing_messages))
    /\ UNCHANGED <<pending_outgoing_messages, next_id, chat_target_language, connection_status, chat_group,
                   local_count, lang_changes, tick_lost>>
    /\ UNCHANGED <<worker_state, worker_request, config_vars, id_vars, app_vars, view_vars, commands_sent>>
    /\ UNCHANGED <<task_state, current_subscription, subscription_ready, event_rx,
                   streams, to_network, inbound_count>>

\* Variant of update that marks a message as requested whether or not
\* request_tx.send succeeded.
update_begin_marks_unsent ==
    /\ pc = "update"
    /\ app_state = "Chat"
    /\ pc' = "events"
    /\ LET msgs1 == process_translations(messages, chat_target_language, response_rx)
           reqs == IF disable_ai \/ ~RequestChannelOpen
                   THEN <<>>
                   ELSE translation_requests(msgs1, translation_requests_sent,
                                             config_target_language)
           do_subscribe == ~subscribed /\ CommandTxIsSome
       IN /\ messages' = msgs1
          /\ response_rx' = <<>>
          /\ request_rx' = request_rx \o reqs
          /\ translation_requests_sent' =
                 translation_requests_sent
                 \cup (IF disable_ai
                       THEN {}
                       ELSE RequestIds(translation_requests(msgs1, translation_requests_sent,
                                                            config_target_language)))
          /\ requests_enqueued' =
                 [id \in MessageIds |->
                     requests_enqueued[id]
                     + Cardinality({i \in 1..Len(reqs) : reqs[i].message_id = id})]
          /\ subscribed' = (subscribed \/ do_subscribe)
          /\ SendCommands((IF do_subscribe THEN <<Cmd_Subscribe(chat_group)>> ELSE <<>>)
                          \o outgoing_commands(pending_outgoing_messages))
    /\ pending_outgoing_messages' = <<>>
    /\ UNCHANGED <<next_id, chat_target_language, connection_status, chat_group,
                   local_count, lang_changes, tick_lost>>
    /\ UNCHANGED <<worker_state, worker_request, config_vars, id_vars, app_vars, view_vars, commands_sent>>
    /\ UNCHANGED <<task_state, current_subscription, subscription_ready, event_rx,
                   streams, to_network, inbound_count>>

\* update, lines 180-226: responses, requests, subscribe, outgoing messages.
update_begin ==
    /\ pc = "update"
    /\ app_state = "Chat"
    /\ pc' = "events"
    /\ LET msgs1 == process_translations(messages, chat_target_language, response_rx)
           reqs == IF disable_ai \/ ~RequestChannelOpen
                   THEN <<>>
                   ELSE translation_requests(msgs1, translation_requests_sent,
                                             config_target_language)
           do_subscribe == ~subscribed /\ CommandTxIsSome
       IN /\ messages' = msgs1
          /\ response_rx' = <<>>
          /\ request_rx' = request_rx \o reqs
          /\ translation_requests_sent' = translation_requests_sent \cup RequestIds(reqs)
          /\ requests_enqueued' =
                 [id \in MessageIds |->
                     requests_enqueued[id]
                     + Cardinality({i \in 1..Len(reqs) : reqs[i].message_id = id})]
          /\ subscribed' = (subscribed \/ do_subscribe)
          /\ SendCommands((IF do_subscribe THEN <<Cmd_Subscribe(chat_group)>> ELSE <<>>)
                          \o outgoing_commands(pending_outgoing_messages))
    /\ pending_outgoing_messages' = <<>>
    /\ UNCHANGED <<next_id, chat_target_language, connection_status, chat_group,
                   local_count, lang_changes, tick_lost>>
    /\ UNCHANGED <<worker_state, worker_request, config_vars, id_vars, app_vars, view_vars, commands_sent>>
    /\ UNCHANGED <<task_state, current_subscription, subscription_ready, event_rx,
                   streams, to_network, inbound_count>>

\* The part of ChatState that the event loop of update works on.
EventState(msgs, id, sub, status) ==
    [messages |-> msgs, next_id |-> id, subscribed |-> sub, connection_status |-> status]

\* Variant of process_event in which SubscriptionLost and ChannelClosed set the
\* status and leave the subscribed flag as it is.
process_event_keeps_flag(st, event) ==
    CASE event.type = "MessageReceived" ->
            [st EXCEPT !.messages = add_message(st.messages, st.next_id,
                                                event.msg.content, event.msg.sender_id),
                       !.next_id = st.next_id + 1]
      [] event.type = "Subscribed" ->
            [st EXCEPT !.connection_status = Connected]
      [] event.type = "Error" /\ event.kind \in {"SubscriptionLost", "ChannelClosed"} ->
            [st EXCEPT !.connection_status = Disconnected]
      [] event.type = "Error"
         /\ event.kind \in {"NetworkCreationFailed", "SubscriptionFailed"} ->
            [st EXCEPT !.subscribed = FALSE,
                       !.connection_status = StatusError(event.detail)]
      [] event.type = "Error" /\ event.kind \in {"SendFailed", "SerializationFailed"} ->
            st

\* Variant of process_event in which ChannelClosed clears the subscribed flag
\* and leaves the status as it is.
process_event_closed_keeps_status(st, event) ==
    CASE event.type = "MessageReceived" ->
            [st EXCEPT !.messages = add_message(st.messages, st.next_id,
                                                event.msg.content, event.msg.sender_id),
                       !.next_id = st.next_id + 1]
      [] event.type = "Subscribed" ->
            [st EXCEPT !.connection_status = Connected]
      [] event.type = "Error" /\ event.kind = "SubscriptionLost" ->
            [st EXCEPT !.subscribed = FALSE, !.connection_status = Disconnected]
      [] event.type = "Error" /\ event.kind = "ChannelClosed" ->
            [st EXCEPT !.subscribed = FALSE]
      [] event.type = "Error"
         /\ event.kind \in {"NetworkCreationFailed", "SubscriptionFailed"} ->
            [st EXCEPT !.subscribed = FALSE,
                       !.connection_status = StatusError(event.detail)]
      [] event.type = "Error" /\ event.kind \in {"SendFailed", "SerializationFailed"} ->
            st

\* Variant of process_event that treats SendFailed and SerializationFailed as
\* the loss of the connection.
process_event_resets_on_send_error(st, event) ==
    CASE event.type = "MessageReceived" ->
            [st EXCEPT !.messages = add_message(st.messages, st.next_id,
                                                event.msg.content, event.msg.sender_id),
                       !.next_id = st.next_id + 1]
      [] event.type = "Subscribed" ->
            [st EXCEPT !.connection_status = Connected]
      [] event.type = "Error"
         /\ event.kind \in {"SubscriptionLost", "ChannelClosed", "SendFailed",
                            "SerializationFailed"} ->
            [st EXCEPT !.subscribed = FALSE, !.connection_status = Disconnected]
      [] event.type = "Error"
         /\ event.kind \in {"NetworkCreationFailed", "SubscriptionFailed"} ->
            [st EXCEPT !.subscribed = FALSE,
                       !.connection_status = StatusError(event.detail)]

\* Variant of process_event that skips a received message whose content and
\* sender are already in the list.
process_event_dedups(st, event) ==
    CASE event.type = "MessageReceived" ->
            IF \E i \in 1..Len(st.messages) :
                  /\ st.messages[i].content = event.msg.content
                  /\ st.messages[i].sender = event.msg.sender_id
            THEN st
            ELSE [st EXCEPT !.messages = add_message(st.messages, st.next_id,
                                                     event.msg.content,
                                                     event.msg.sender_id),
                            !.next_id = st.next_id + 1]
      [] event.type = "Subscribed" ->
            [st EXCEPT !.connection_status = Connected]
      [] event.type = "Error" /\ event.kind \in {"SubscriptionLost", "ChannelClosed"} ->
            [st EXCEPT !.subscribed = FALSE, !.connection_status = Disconnected]
      [] event.type = "Error"
         /\ event.kind \in {"NetworkCreationFailed", "SubscriptionFailed"} ->
            [st EXCEPT !.subscribed = FALSE,
                       !.connection_status = StatusError(event.detail)]
      [] event.type = "Error" /\ event.kind \in {"SendFailed", "SerializationFailed"} ->
            st

\* Variant of process_event that treats SubscriptionLost like the send
\* errors: it is logged only.
process_event_ignores_lost(st, event) ==
    CASE event.type = "MessageReceived" ->
            [st EXCEPT !.messages = add_message(st.messages, st.next_id,
                                                event.msg.content, event.msg.sender_id),
                       !.next_id = st.next_id + 1]
      [] event.type = "Subscribed" ->
            [st EXCEPT !.connection_status = Connected]
      [] event.type = "Error" /\ event.kind = "ChannelClosed" ->
            [st EXCEPT !.subscribed = FALSE, !.connection_status = Disconnected]
      [] event.type = "Error"
         /\ event.kind \in {"NetworkCreationFailed", "SubscriptionFailed"} ->
            [st EXCEPT !.subscribed = FALSE,
                       !.connection_status = StatusError(event.detail)]
      [] event.type = "Error"
         /\ event.kind \in {"SendFailed", "SerializationFailed", "SubscriptionLost"} ->
            st

\* update, lines 230-266: one event
process_event(st, event) ==
    CASE event.type = "MessageReceived" ->
            [st EXCEPT !.messages = add_message(st.messages, st.next_id,
                                                event.msg.content, event.msg.sender_id),
                       !.next_id = st.next_id + 1]
      [] event.type = "Subscribed" ->
            [st EXCEPT !.connection_status = Connected]
      [] event.type = "Error" /\ event.kind \in {"SubscriptionLost", "ChannelClosed"} ->
            [st EXCEPT !.subscribed = FALSE, !.connection_status = Disconnected]
      [] event.type = "Error"
         /\ event.kind \in {"NetworkCreationFailed", "SubscriptionFailed"} ->
            [st EXCEPT !.subscribed = FALSE,
                       !.connection_status = StatusError(event.detail)]
      [] event.type = "Error" /\ event.kind \in {"SendFailed", "SerializationFailed"} ->
            st

\* update, lines 229-267: every available event, oldest first.
RECURSIVE process_events(_, _)
process_events(st, events) ==
    IF events = <<>>
    THEN st
    ELSE process_events(process_event(st, Head(events)), Tail(events))

IsLost(event) == event.type = "Error" /\ event.kind = "SubscriptionLost"

SetsOtherStatus(event) ==
    \/ event.type = "Subscribed"
    \/ event.type = "Error" /\ event.kind \in {"NetworkCreationFailed", "SubscriptionFailed"}

\* "none": no SubscriptionLost among the events; "last": there is one and no
\* later event sets another status than Disconnected; "overridden": otherwise.
LostInDrain(events) ==
    IF ~\E i \in 1..Len(events) : IsLost(events[i])
    THEN "none"
    ELSE LET i == CHOOSE k \in 1..Len(events) :
                      IsLost(events[k]) /\ \A j \in (k+1)..Len(events) : ~IsLost(events[j])
         IN IF \E j \in (i+1)..Len(events) : SetsOtherStatus(events[j])
            THEN "overridden"
            ELSE "last"

\* ------------------------------------------------------------------------
\* Panes of the ChatState (src/src/tui/chat_state.rs, ScrollViewState)
\* ------------------------------------------------------------------------
\* u16::MAX, where scroll_to_bottom puts an offset whose content size is not
\* known yet
U16_MAX == 65535

\* the size of a ScrollViewState that no frame has rendered: None
NoSize == 0

saturating_sub(a, b) == IF a > b THEN a - b ELSE 0

saturating_add(a, b) == IF a + b < U16_MAX THEN a + b ELSE U16_MAX

\* ScrollViewState: the vertical offset and the height of the content of the
\* latest frame. The panes scroll vertically only.
ScrollViewState(offset, size) == [offset |-> offset, size |-> size]

ScrollViewState_default == ScrollViewState(0, NoSize)

\* ScrollViewState::scroll_to_bottom
scroll_to_bottom(state) ==
    [state EXCEPT !.offset = IF state.size = NoSize
                             THEN U16_MAX
                             ELSE saturating_sub(state.size, 1)]

\* ScrollViewState::scroll_up
scroll_up(state) == [state EXCEPT !.offset = saturating_sub(@, 1)]

\* ScrollViewState::scroll_down
scroll_down(state) == [state EXCEPT !.offset = saturating_add(@, 1)]

\* The lines of a pane: wrap_text of one line per message, each message
\* taking one line of a pane that is wide enough for it.
content_height(msgs) == Len(msgs)

\* The rows inside the border of the messages pane: two rows go to the
\* error box while the status is Error.
inner_height(status) ==
    IF status.tag = "Error" THEN saturating_sub(PageHeight, 2) ELSE PageHeight

\* Variant of render_with_scroll_state that follows the content: every frame
\* shows the last page.
render_with_scroll_state_follows(state, msgs, page) ==
    LET height == IF content_height(msgs) > 1 THEN content_height(msgs) ELSE 1
    IN ScrollViewState(saturating_sub(height, page), height)

\* render_with_scroll_state: the ScrollView is given the scroll state by
\* mutable reference; rendering keeps the offset within the content and
\* records the size of the content.
render_with_scroll_state(state, msgs, page) ==
    LET height == IF content_height(msgs) > 1 THEN content_height(msgs) ELSE 1
        max_offset == saturating_sub(height, page)
    IN ScrollViewState(IF state.offset < max_offset THEN state.offset ELSE max_offset,
                       height)

\* ChatState::render, called by terminal.draw in run: the messages pane, and
\* the translations pane when it is shown and AI is enabled.
draw ==
    /\ pc = "draw"
    /\ app_state = "Chat"
    /\ pc' = "poll"
    /\ messages_scroll_state' =
          render_with_scroll_state(messages_scroll_state, messages,
                                   inner_height(connection_status))
    /\ translations_scroll_state' =
          IF show_translations /\ ~disable_ai
          THEN render_with_scroll_state(translations_scroll_state, messages, PageHeight)
          ELSE translations_scroll_state
    /\ UNCHANGED <<show_translations, messages, next_id, chat_target_language,
                   translation_requests_sent, pending_outgoing_messages, subscribed,
                   connection_status, chat_group, local_count, lang_changes,
                   requests_enqueued, tick_lost>>
    /\ UNCHANGED <<net_vars, commands_sent, worker_vars, config_vars, id_vars, app_vars>>

\* handle_key_event, Up, Down, PageUp and PageDown: one step or ten
ScrollKeys == {"Up", "Down", "PageUp", "PageDown"}

RECURSIVE scroll_times(_, _, _)
scroll_times(state, key, n) ==
    IF n = 0 THEN state
    ELSE scroll_times(IF key \in {"Up", "PageUp"} THEN scroll_up(state)
                                                  ELSE scroll_down(state),
                      key, n - 1)

handle_key_event_scroll ==
    /\ pc = "poll"
    /\ app_state = "Chat"
    /\ pc' = "update"
    /\ \E key \in ScrollKeys :
          LET n == IF key \in {"Up", "Down"} THEN 1 ELSE 10
          IN /\ key \in {"Down", "PageDown"} =>
                   /\ messages_scroll_state.offset + n <= MaxOffset
                   /\ translations_scroll_state.offset + n <= MaxOffset
             /\ messages_scroll_state' = scroll_times(messages_scroll_state, key, n)
             /\ translations_scroll_state' =
                   scroll_times(translations_scroll_state, key, n)
    /\ UNCHANGED <<show_translations, messages, next_id, chat_target_language,
                   translation_requests_sent, pending_outgoing_messages, subscribed,
                   connection_status, chat_group, local_count, lang_changes,
                   requests_enqueued, tick_lost>>
    /\ UNCHANGED <<net_vars, commands_sent, worker_vars, config_vars, id_vars, app_vars>>

\* handle_key_event, Ctrl+T: the translations pane is toggled unless AI is
\* disabled
handle_key_event_toggle ==
    /\ pc = "poll"
    /\ app_state = "Chat"
    /\ pc' = "update"
    /\ show_translations' = IF ~disable_ai THEN ~show_translations ELSE show_translations
    /\ UNCHANGED <<messages_scroll_state, translations_scroll_state, messages, next_id,
                   chat_target_language, translation_requests_sent,
                   pending_outgoing_messages, subscribed, connection_status, chat_group,
                   local_count, lang_changes, requests_enqueued, tick_lost>>
    /\ UNCHANGED <<net_vars, commands_sent, worker_vars, config_vars, id_vars, app_vars>>

\* The scroll states after the event loop of update: scroll_to_bottom follows
\* every received message that was added.
scrolled_after(state, events) ==
    IF \E i \in 1..Len(events) : events[i].type = "MessageReceived"
    THEN scroll_to_bottom(state)
    ELSE state

\* Variant of the event loop of update in which a NetworkCreationFailed event
\* ends the session: the application goes to Quit.
update_events_quits_on_failure ==
    /\ pc = "events"
    /\ app_state = "Chat"
    /\ pc' = "draw"
    /\ messages_scroll_state' = scrolled_after(messages_scroll_state, event_rx)
    /\ translations_scroll_state' = scrolled_after(translations_scroll_state, event_rx)
    /\ LET st == process_events(EventState(messages, next_id, subscribed,
                                           connection_status), event_rx)
       IN /\ messages' = st.messages
          /\ next_id' = st.next_id
          /\ subscribed' = st.subscribed
          /\ connection_status' = st.connection_status
    /\ app_state' = IF \E i \in 1..Len(event_rx) :
                         /\ event_rx[i].type = "Error"
                         /\ event_rx[i].kind = "NetworkCreationFailed"
                    THEN "Quit"
                    ELSE app_state
    /\ tick_lost' = LostInDrain(event_rx)
    /\ event_rx' = <<>>
    /\ UNCHANGED <<chat_target_language, translation_requests_sent,
                   pending_outgoing_messages, chat_group, local_count, lang_changes,
                   requests_enqueued>>
    /\ UNCHANGED <<worker_vars, config_vars, id_vars, menu_vars, room, room_vars,
                   show_translations, commands_sent>>
    /\ UNCHANGED <<task_state, current_subscription, subscription_ready, command_rx,
                   streams, to_network, inbound_count>>

\* Variant of the event loop of update that waits for an event (recv in the
\* place of try_recv) before it goes on.
update_events_waits ==
    /\ pc = "events"
    /\ app_state = "Chat"
    /\ event_rx # <<>>
    /\ pc' = "draw"
    /\ messages_scroll_state' = scrolled_after(messages_scroll_state, event_rx)
    /\ translations_scroll_state' = scrolled_after(translations_scroll_state, event_rx)
    /\ LET st == process_events(EventState(messages, next_id, subscribed,
                                           connection_status), event_rx)
       IN /\ messages' = st.messages
          /\ next_id' = st.next_id
          /\ subscribed' = st.subscribed
          /\ connection_status' = st.connection_status
    /\ tick_lost' = LostInDrain(event_rx)
    /\ event_rx' = <<>>
    /\ UNCHANGED <<chat_target_language, translation_requests_sent,
                   pending_outgoing_messages, chat_group, local_count, lang_changes,
                   requests_enqueued>>
    /\ UNCHANGED <<worker_vars, config_vars, id_vars, app_vars, show_translations,
                   commands_sent>>
    /\ UNCHANGED <<task_state, current_subscription, subscription_ready, command_rx,
                   streams, to_network, inbound_count>>

update_events ==
    /\ pc = "events"
    /\ app_state = "Chat"
    /\ pc' = "draw"
    /\ messages_scroll_state' = scrolled_after(messages_scroll_state, event_rx)
    /\ translations_scroll_state' = scrolled_after(translations_scroll_state, event_rx)
    /\ LET st == process_events(EventState(messages, next_id, subscribed,
                                           connection_status), event_rx)
       IN /\ messages' = st.messages
          /\ next_id' = st.next_id
          /\ subscribed' = st.subscribed
          /\ connection_status' = st.connection_status
    /\ tick_lost' = LostInDrain(event_rx)
    /\ event_rx' = <<>>
    /\ UNCHANGED <<chat_target_language, translation_requests_sent,
                   pending_outgoing_messages, chat_group, local_count, lang_changes,
                   requests_enqueued>>
    /\ UNCHANGED <<worker_vars, config_vars, id_vars, app_vars, show_translations,
                   commands_sent>>
    /\ UNCHANGED <<task_state, current_subscription, subscription_ready, command_rx,
                   streams, to_network, inbound_count>>

\* handle_key_event, Enter with a non-empty input
handle_key_event_enter ==
    /\ pc = "poll"
    /\ app_state = "Chat"
    /\ pc' = "update"
    /\ local_count < MaxLocal
    /\ local_count' = local_count + 1
    /\ \E content \in Contents :
          /\ messages' = add_message(messages, next_id, content, Username)
          /\ pending_outgoing_messages' = Append(pending_outgoing_messages, content)
    /\ next_id' = next_id + 1
    /\ messages_scroll_state' = scroll_to_bottom(messages_scroll_state)
    /\ translations_scroll_state' = scroll_to_bottom(translations_scroll_state)
    /\ UNCHANGED <<chat_target_language, translation_requests_sent, subscribed,
                   connection_status, chat_group, lang_changes, requests_enqueued,
                   tick_lost>>
    /\ UNCHANGED <<net_vars, commands_sent, worker_vars, config_vars, id_vars, app_vars,
                   show_translations>>

\* handle_key_event, Enter with one of several input lines
handle_key_event_enter_input ==
    /\ pc = "poll"
    /\ app_state = "Chat"
    /\ pc' = "update"
    /\ local_count < MaxSubmitted
    /\ local_count' = local_count + 1
    /\ \E content \in Inputs :
          /\ messages' = add_message(messages, next_id, content, Username)
          /\ pending_outgoing_messages' = Append(pending_outgoing_messages, content)
    /\ next_id' = next_id + 1
    /\ messages_scroll_state' = scroll_to_bottom(messages_scroll_state)
    /\ translations_scroll_state' = scroll_to_bottom(translations_scroll_state)
    /\ UNCHANGED <<chat_target_language, translation_requests_sent, subscribed,
                   connection_status, chat_group, lang_changes, requests_enqueued,
                   tick_lost>>
    /\ UNCHANGED <<net_vars, commands_sent, worker_vars, config_vars, id_vars, app_vars,
                   show_translations>>

\* The poll times out, or the key read leaves the session state as it is.
poll_no_change ==
    /\ pc = "poll"
    /\ pc' = "update"
    /\ UNCHANGED <<messages, next_id, chat_target_language, translation_requests_sent,
                   pending_outgoing_messages, subscribed, connection_status, chat_group,
                   local_count, lang_changes, requests_enqueued, tick_lost>>
    /\ UNCHANGED <<net_vars, commands_sent, worker_vars, config_vars, id_vars, app_vars, view_vars>>

\* Chat::set_target_language, called between two ticks
set_target_language ==
    /\ pc = "poll"
    /\ app_state = "Chat"
    /\ pc' = "update"
    /\ lang_changes < MaxLangChanges
    /\ lang_changes' = lang_changes + 1
    /\ \E language \in Languages : chat_target_language' = language
    /\ messages' = clear_translations(messages)
    /\ requests_enqueued' = [id \in MessageIds |-> 0]
    /\ UNCHANGED <<next_id, translation_requests_sent, pending_outgoing_messages,
                   subscribed, connection_status, chat_group, local_count, tick_lost>>
    /\ UNCHANGED <<net_vars, commands_sent, worker_vars, config_vars, id_vars, app_vars, view_vars>>

\* ------------------------------------------------------------------------
\* Concurrent callers of Chat::add_message (src/src/entities/chat.rs)
\* ------------------------------------------------------------------------
\* Threads that add messages, and the chats they add them to. add_message
\* takes &mut self: one caller at a time is inside add_message of a chat.
Callers == {"t1", "t2"}

ChatIds == {1, 2}

NoId == -1

CallerIdle == [at |-> "idle", chat |-> 0, id |-> NoId]

ChatBorrowed(ch) == \E c \in Callers : callers[c].at # "idle" /\ callers[c].chat = ch

CallsStarted == next_id + Cardinality({c \in Callers : callers[c].at = "new"})

\* Chat::add_message is entered on a chat nobody else is adding to.
add_message_call(c) ==
    /\ callers[c].at = "idle"
    /\ CallsStarted < MaxIdCalls
    /\ \E ch \in ChatIds :
          /\ ~ChatBorrowed(ch)
          /\ callers' = [callers EXCEPT ![c] = [at |-> "new", chat |-> ch, id |-> NoId]]
    /\ UNCHANGED <<chats, next_id>>

\* Variant of Message::new that reads NEXT_ID and does not advance it.
Message_new_load(c) ==
    /\ callers[c].at = "new"
    /\ callers' = [callers EXCEPT ![c].at = "push", ![c].id = next_id]
    /\ UNCHANGED <<chats, next_id>>

\* Message::new: NEXT_ID.fetch_add(1, Relaxed) is one atomic read-modify-write.
Message_new_fetch_add(c) ==
    /\ callers[c].at = "new"
    /\ callers' = [callers EXCEPT ![c].at = "push", ![c].id = next_id]
    /\ next_id' = next_id + 1
    /\ UNCHANGED chats

\* Chat::add_message: self.messages.push(message), and the call returns.
add_message_push(c) ==
    /\ callers[c].at = "push"
    /\ \E content \in Contents, sender \in Senders :
          chats' = [chats EXCEPT ![callers[c].chat] =
                       add_message(@, callers[c].id, content, sender)]
    /\ callers' = [callers EXCEPT ![c] = CallerIdle]
    /\ UNCHANGED next_id

IdCallersUnchanged ==
    UNCHANGED <<net_vars, commands_sent, worker_vars, config_vars, app_vars, view_vars, pc, messages,
                chat_target_language, translation_requests_sent,
                pending_outgoing_messages, subscribed, connection_status, chat_group,
                local_count, lang_changes, requests_enqueued, tick_lost>>

CallerEntersAddMessage == \E c \in Callers : add_message_call(c) /\ IdCallersUnchanged

CallerTakesId == \E c \in Callers : Message_new_fetch_add(c) /\ IdCallersUnchanged

CallerPushesMessage == \E c \in Callers : add_message_push(c) /\ IdCallersUnchanged

InitIdCallers ==
    /\ callers = [c \in Callers |-> CallerIdle]
    /\ chats = [ch \in ChatIds |-> <<>>]

\* ------------------------------------------------------------------------
\* Callers of Room::new and Room::from_identifier
\* ------------------------------------------------------------------------
\* Room names: a plain one, one with dashes, one of a two-byte char, the
\* empty one.
RoomNames == {<<"z">>, <<"z", "-", "z">>, <<TwoByteChar>>, <<>>}

UuidText == Uuid_to_string(UuidV4(0))

UpperUuidText ==
    [i \in 1..36 |-> IF Uuid_to_string(UuidV4(10))[i] = "a" THEN "A"
                     ELSE Uuid_to_string(UuidV4(10))[i]]

\* Identifier texts a user may submit.
IdentifierInputs ==
    { <<"a", "b">>,
      <<"a", "-", "z">>,
      <<"a", "-">> \o UuidText,
      <<"a", "-">> \o UuidText \o <<"z">>,
      <<"a", "-">> \o Rep("z", 36) \o <<"-", "z">>,
      <<"a", "-">> \o Rep("0", 36) \o <<"-", "z">>,
      <<"a", "-">> \o UuidText \o <<"-", "z">>,
      <<"a", "-">> \o UuidText \o <<"-", "z", "-", "z">>,
      <<"a", "-">> \o UpperUuidText \o <<"-", "z">>,
      <<"-">> \o UuidText \o <<"-">>,
      <<"a", "-">> \o Rep("0", 35) \o <<TwoByteChar, "-", "z">>,
      <<"a", "-">> \o Rep(TwoByteChar, 18),
      <<"a", "-">> \o Rep(TwoByteChar, 18) \o <<"-", "z">> }

NoParse == [called |-> FALSE, identifier |-> <<>>, outcome |-> Err("")]

\* The Uuids that Uuid::new_v4 has returned: a Uuid of 122 random bits is
\* taken to differ from every earlier one.
UuidsIssued == {rooms[i].uuid : i \in 1..Len(rooms)}

Room_new_call ==
    /\ Len(rooms) < MaxRooms
    /\ \E name \in RoomNames, uuid \in Uuids \ UuidsIssued :
          rooms' = Append(rooms, Room_new(name, uuid))
    /\ UNCHANGED parse_result
    /\ UNCHANGED <<net_vars, commands_sent, worker_vars, config_vars, chat_vars, id_vars,
                   app_state, menu_vars, room, view_vars>>

from_identifier_call ==
    /\ \E identifier \in IdentifierInputs \cup {rooms[i].identifier : i \in 1..Len(rooms)} :
          parse_result' = [called |-> TRUE, identifier |-> identifier,
                           outcome |-> from_identifier(identifier)]
    /\ UNCHANGED rooms
    /\ UNCHANGED <<net_vars, commands_sent, worker_vars, config_vars, chat_vars, id_vars,
                   app_state, menu_vars, room, view_vars>>

InitRoomCallers ==
    /\ rooms = <<>>
    /\ parse_result = NoParse

\* ------------------------------------------------------------------------
\* TuiApp and MainMenuState (src/src/tui/mod.rs, src/src/tui/main_menu_state.rs)
\* ------------------------------------------------------------------------
\* status_message: the format text, the identifier or name put into it, and
\* the error text put into it
StatusMessage(text, arg, error) == [text |-> text, arg |-> arg, error |-> error]

StatusEmpty == StatusMessage("", <<>>, "")

\* the texts typed so far are the beginnings of these texts
Prefixes(texts) == UNION {{SubSeq(t, 1, n) : n \in 0..Len(t)} : t \in texts}

\* Room names and identifiers a user may type in the menu.
TypedNames == {<<"z">>, <<"z", "-", "z">>, <<TwoByteChar>>}

TypedIdentifiers ==
    { <<"a", "b">>,
      <<"a", "-", "z">>,
      <<"a", "-">> \o Rep("z", 36) \o <<"-", "z">>,
      <<"a", "-">> \o UuidText \o <<"-", "z", "-", "z">>,
      <<"a", "-">> \o Rep("0", 35) \o <<TwoByteChar, "-", "z">> }

NamePrefixes == Prefixes(TypedNames)

IdentifierPrefixes == Prefixes(TypedIdentifiers)

TypedChars(input, prefixes) == {c \in {Alphabet[i] : i \in 1..Len(Alphabet)} :
                                   Append(input, c) \in prefixes}

\* String::pop
pop(s) == IF s = <<>> THEN s ELSE SubSeq(s, 1, Len(s) - 1)

\* MainMenuState::default
MainMenuState_default ==
    /\ selected_option' = "CreateRoom"
    /\ room_name_input' = <<>>
    /\ room_id_input' = <<>>
    /\ input_mode' = "Menu"
    /\ status_message' = StatusEmpty

\* Variant of with_room that creates the session state with the subscribed
\* flag set.
with_room_subscribed(r) ==
    /\ room' = r
    /\ chat_group' = to_chat_group(r)
    /\ messages' = <<>>
    /\ chat_target_language' = DefaultChatLanguage
    /\ translation_requests_sent' = {}
    /\ pending_outgoing_messages' = <<>>
    /\ subscribed' = TRUE
    /\ connection_status' = Connecting
    /\ task_state' = "starting"
    /\ command_rx' = <<>>
    /\ event_rx' = <<>>
    /\ show_translations' = TRUE
    /\ messages_scroll_state' = ScrollViewState_default
    /\ translations_scroll_state' = ScrollViewState_default
    /\ UNCHANGED <<current_subscription, subscription_ready, streams, to_network,
                   inbound_count, commands_sent, worker_vars, config_vars, id_vars,
                   room_vars, next_id, local_count, lang_changes, requests_enqueued,
                   tick_lost>>

\* ChatState::with_room: a new session state, and initialize_channels spawns
\* the network task. NEXT_ID is a static of the process.
with_room(r) ==
    /\ room' = r
    /\ chat_group' = to_chat_group(r)
    /\ messages' = <<>>
    /\ chat_target_language' = DefaultChatLanguage
    /\ translation_requests_sent' = {}
    /\ pending_outgoing_messages' = <<>>
    /\ subscribed' = FALSE
    /\ connection_status' = Connecting
    /\ task_state' = "starting"
    /\ command_rx' = <<>>
    /\ event_rx' = <<>>
    /\ show_translations' = TRUE
    /\ messages_scroll_state' = ScrollViewState_default
    /\ translations_scroll_state' = ScrollViewState_default
    /\ UNCHANGED <<current_subscription, subscription_ready, streams, to_network,
                   inbound_count, commands_sent, worker_vars, config_vars, id_vars,
                   room_vars, next_id, local_count, lang_changes, requests_enqueued,
                   tick_lost>>

\* what a handler of MainMenuState leaves alone
MenuSessionUnchanged ==
    UNCHANGED <<net_vars, commands_sent, worker_vars, config_vars, id_vars, room_vars,
                room, messages, next_id, chat_target_language,
                translation_requests_sent, pending_outgoing_messages, subscribed,
                connection_status, chat_group, local_count, lang_changes,
                requests_enqueued, tick_lost, view_vars>>

\* run in the MainMenu state: update does nothing, draw, no break
MainMenuState_update ==
    /\ pc = "update"
    /\ app_state = "MainMenu"
    /\ pc' = "poll"
    /\ UNCHANGED <<app_state, menu_vars>>
    /\ MenuSessionUnchanged

\* Variant of run_break that goes on to poll.
run_break_never ==
    /\ pc = "update"
    /\ app_state = "Quit"
    /\ pc' = "poll"
    /\ UNCHANGED <<app_state, menu_vars>>
    /\ MenuSessionUnchanged

\* run in the Quit state: update does nothing, draw, break
run_break ==
    /\ pc = "update"
    /\ app_state = "Quit"
    /\ pc' = "done"
    /\ UNCHANGED <<app_state, menu_vars>>
    /\ MenuSessionUnchanged

\* MainMenuState::handle_key_event, Ctrl+Q: the menu state is dropped
MainMenuState_quit ==
    /\ pc = "poll"
    /\ app_state = "MainMenu"
    /\ pc' = "update"
    /\ app_state' = "Quit"
    /\ MainMenuState_default
    /\ MenuSessionUnchanged

\* ChatState::handle_key_event, Ctrl+Q
ChatState_quit ==
    /\ pc = "poll"
    /\ app_state = "Chat"
    /\ pc' = "update"
    /\ app_state' = "Quit"
    /\ UNCHANGED menu_vars
    /\ MenuSessionUnchanged

\* MainMenuState::handle_menu_input: Up, Down, Enter
handle_menu_input ==
    /\ pc = "poll"
    /\ app_state = "MainMenu"
    /\ input_mode = "Menu"
    /\ pc' = "update"
    /\ \/ /\ selected_option' = "CreateRoom"
          /\ UNCHANGED <<input_mode, room_name_input, room_id_input>>
       \/ /\ selected_option' = "JoinRoom"
          /\ UNCHANGED <<input_mode, room_name_input, room_id_input>>
       \/ /\ selected_option = "CreateRoom"
          /\ input_mode' = "CreatingRoom"
          /\ room_name_input' = <<>>
          /\ UNCHANGED <<selected_option, room_id_input>>
       \/ /\ selected_option = "JoinRoom"
          /\ input_mode' = "JoiningRoom"
          /\ room_id_input' = <<>>
          /\ UNCHANGED <<selected_option, room_name_input>>
    /\ UNCHANGED <<app_state, status_message>>
    /\ MenuSessionUnchanged

\* MainMenuState::handle_create_room_input: Esc, Char, Backspace, Enter
handle_create_room_input ==
    /\ pc = "poll"
    /\ app_state = "MainMenu"
    /\ input_mode = "CreatingRoom"
    /\ pc' = "update"
    /\ \/ /\ input_mode' = "Menu"
          /\ UNCHANGED <<app_state, selected_option, room_name_input, room_id_input,
                         status_message>>
          /\ MenuSessionUnchanged
       \/ /\ \E c \in TypedChars(room_name_input, NamePrefixes) :
                room_name_input' = Append(room_name_input, c)
          /\ UNCHANGED <<app_state, selected_option, input_mode, room_id_input,
                         status_message>>
          /\ MenuSessionUnchanged
       \/ /\ room_name_input' = pop(room_name_input)
          /\ UNCHANGED <<app_state, selected_option, input_mode, room_id_input,
                         status_message>>
          /\ MenuSessionUnchanged
       \/ /\ room_name_input = <<>>
          /\ UNCHANGED <<app_state, menu_vars>>
          /\ MenuSessionUnchanged
       \/ /\ room_name_input # <<>>
          /\ \E uuid \in Uuids \ UuidsIssued :
                /\ with_room(Room_new(room_name_input, uuid))
                /\ app_state' = "Chat"
                /\ MainMenuState_default

\* MainMenuState::handle_join_room_input: Esc, Char, Backspace, Enter
handle_join_room_input ==
    /\ pc = "poll"
    /\ app_state = "MainMenu"
    /\ input_mode = "JoiningRoom"
    /\ \/ /\ pc' = "update"
          /\ input_mode' = "Menu"
          /\ UNCHANGED <<app_state, selected_option, room_name_input, room_id_input,
                         status_message>>
          /\ MenuSessionUnchanged
       \/ /\ pc' = "update"
          /\ \E c \in TypedChars(room_id_input, IdentifierPrefixes) :
                room_id_input' = Append(room_id_input, c)
          /\ UNCHANGED <<app_state, selected_option, input_mode, room_name_input,
                         status_message>>
          /\ MenuSessionUnchanged
       \/ /\ pc' = "update"
          /\ room_id_input' = pop(room_id_input)
          /\ UNCHANGED <<app_state, selected_option, input_mode, room_name_input,
                         status_message>>
          /\ MenuSessionUnchanged
       \/ /\ pc' = "update"
          /\ room_id_input = <<>>
          /\ UNCHANGED <<app_state, menu_vars>>
          /\ MenuSessionUnchanged
       \/ /\ room_id_input # <<>>
          /\ LET result == from_identifier(room_id_input)
             IN CASE result.kind = "Ok" ->
                       /\ pc' = "update"
                       /\ with_room(result.room)
                       /\ app_state' = "Chat"
                       /\ MainMenuState_default
                  [] result.kind = "Err" ->
                       /\ pc' = "update"
                       /\ status_message' = StatusMessage("Invalid room ID: {}", <<>>,
                                                          result.error)
                       /\ UNCHANGED <<app_state, selected_option, input_mode,
                                      room_name_input, room_id_input>>
                       /\ MenuSessionUnchanged
                  [] result.kind = "Panic" ->
                       /\ pc' = "panicked"
                       /\ UNCHANGED <<app_state, menu_vars>>
                       /\ MenuSessionUnchanged

\* TuiApp::new: the main menu, and TranslationService::new spawns the worker.
\* No ChatState and no network task exist yet.
InitMainMenu ==
    /\ app_state = "MainMenu"
    /\ selected_option = "CreateRoom"
    /\ room_name_input = <<>>
    /\ room_id_input = <<>>
    /\ input_mode = "Menu"
    /\ status_message = StatusEmpty
    /\ room = NoRoom

\* The application after a room was created: the ChatState of that room.
InitChatEntered ==
    /\ app_state = "Chat"
    /\ selected_option = "CreateRoom"
    /\ room_name_input = <<>>
    /\ room_id_input = <<>>
    /\ input_mode = "Menu"
    /\ status_message = StatusEmpty
    /\ room = Room_new(<<"z">>, UuidV4(0))

\* ------------------------------------------------------------------------
\* Specifications
\* ------------------------------------------------------------------------
\* Network task, queues and substrate after network_service.initialize_channels
InitNetwork ==
    /\ task_state = "starting"
    /\ current_subscription = 0
    /\ subscription_ready = 0
    /\ command_rx = <<>>
    /\ event_rx = <<>>
    /\ streams = <<>>
    /\ to_network = <<>>
    /\ inbound_count = 0
    /\ commands_sent = 0

\* ChatState::with_room and TranslationService::new
InitSession ==
    /\ worker_state = "starting"
    /\ worker_request = NoRequest
    /\ request_rx = <<>>
    /\ response_rx = <<>>
    /\ pc = "update"
    /\ messages = <<>>
    /\ next_id = 0
    /\ chat_target_language = DefaultChatLanguage
    /\ translation_requests_sent = {}
    /\ pending_outgoing_messages = <<>>
    /\ subscribed = FALSE
    /\ connection_status = Connecting
    /\ local_count = 0
    /\ lang_changes = 0
    /\ requests_enqueued = [id \in MessageIds |-> 0]
    /\ tick_lost = "none"
    /\ show_translations = TRUE
    /\ messages_scroll_state = ScrollViewState_default
    /\ translations_scroll_state = ScrollViewState_default

\* The room of the session is fixed when the session is created.
RoomGroup == GroupA

\* The whole session: run loop, network task, substrate, translation worker.
Init ==
    /\ InitNetwork
    /\ InitSession
    /\ InitIdCallers
    /\ InitChatEntered
    /\ InitRoomCallers
    /\ disable_ai \in BOOLEAN
    /\ config_target_language \in Languages
    /\ chat_group = RoomGroup

Next ==
    \/ update_begin
    \/ update_events
    \/ draw
    \/ handle_key_event_enter
    \/ poll_no_change
    \/ set_target_language
    \/ NetworkTaskState_new
    \/ TaskRecvCommand
    \/ TaskRecvFromNetwork
    \/ SubstrateDelivers
    \/ TaskRecvStreamEnd
    \/ SubstrateEndsStream
    \/ translation_worker_start
    \/ translation_worker_recv
    \/ translation_worker_translate

Spec == Init /\ [][Next]_vars

\* The session with AI disabled by the configuration: the worker exits at its
\* start, so its loop never runs.
InitNoAI ==
    /\ InitNetwork
    /\ InitSession
    /\ InitIdCallers
    /\ InitChatEntered
    /\ InitRoomCallers
    /\ disable_ai = TRUE
    /\ config_target_language = DefaultChatLanguage
    /\ chat_group = RoomGroup

NextNoAI ==
    \/ update_begin
    \/ update_events
    \/ draw
    \/ handle_key_event_enter
    \/ poll_no_change
    \/ NetworkTaskState_new
    \/ TaskRecvCommand
    \/ TaskRecvFromNetwork
    \/ SubstrateDelivers
    \/ TaskRecvStreamEnd
    \/ SubstrateEndsStream
    \/ translation_worker_start

SpecNoAI == InitNoAI /\ [][NextNoAI]_vars

\* The session with AI enabled in which every message comes from a peer:
\* the user submits nothing and the substrate keeps the inbound stream open.
InitAI ==
    /\ InitNetwork
    /\ InitSession
    /\ InitIdCallers
    /\ InitChatEntered
    /\ InitRoomCallers
    /\ disable_ai = FALSE
    /\ config_target_language \in Languages
    /\ chat_group = RoomGroup

NextAI ==
    \/ update_begin
    \/ update_events
    \/ draw
    \/ poll_no_change
    \/ set_target_language
    \/ NetworkTaskState_new
    \/ TaskRecvCommand
    \/ TaskRecvFromNetwork
    \/ SubstrateDelivers
    \/ translation_worker_start
    \/ translation_worker_recv
    \/ translation_worker_translate

SpecAI == InitAI /\ [][NextAI]_vars

\* The network task alone, driven by a client that may enqueue any command.
InitNet ==
    /\ InitNetwork
    /\ InitSession
    /\ InitIdCallers
    /\ InitChatEntered
    /\ InitRoomCallers
    /\ disable_ai = TRUE
    /\ config_target_language = DefaultChatLanguage
    /\ chat_group = RoomGroup

NextNet ==
    \/ NetworkTaskState_new
    \/ TaskRecvCommand
    \/ TaskRecvFromNetwork
    \/ SubstrateDelivers
    \/ TaskRecvStreamEnd
    \/ SubstrateEndsStream
    \/ ClientCommand
    \/ ClientTakesEvent

SpecNet == InitNet /\ [][NextNet]_vars

\* Threads adding messages to chats of their own, sharing NEXT_ID.
InitIds ==
    /\ InitNetwork
    /\ InitSession
    /\ InitIdCallers
    /\ InitChatEntered
    /\ InitRoomCallers
    /\ disable_ai = TRUE
    /\ config_target_language = DefaultChatLanguage
    /\ chat_group = RoomGroup

NextIds ==
    \/ CallerEntersAddMessage
    \/ CallerTakesId
    \/ CallerPushesMessage

SpecIds == InitIds /\ [][NextIds]_vars

\* The outgoing path: the user submits input lines, the ticks pass them to
\* the network task, the task serves its commands.
InitSend ==
    /\ InitNetwork
    /\ InitSession
    /\ InitIdCallers
    /\ InitChatEntered
    /\ InitRoomCallers
    /\ disable_ai = TRUE
    /\ config_target_language = DefaultChatLanguage
    /\ chat_group = RoomGroup

NextSend ==
    \/ update_begin
    \/ update_events
    \/ draw
    \/ handle_key_event_enter_input
    \/ poll_no_change
    \/ NetworkTaskState_new
    \/ TaskRecvCommand

SpecSend == InitSend /\ [][NextSend]_vars

\* The callers of Room::new and Room::from_identifier alone.
InitRoom ==
    /\ InitNetwork
    /\ InitSession
    /\ InitIdCallers
    /\ InitChatEntered
    /\ InitRoomCallers
    /\ disable_ai = TRUE
    /\ config_target_language = DefaultChatLanguage
    /\ chat_group = RoomGroup

NextRoom ==
    \/ Room_new_call
    \/ from_identifier_call

SpecRoom == InitRoom /\ [][NextRoom]_vars

\* Before ChatState::with_room no network task and no channel exists.
InitNoNetwork ==
    /\ task_state = "absent"
    /\ current_subscription = 0
    /\ subscription_ready = 0
    /\ command_rx = <<>>
    /\ event_rx = <<>>
    /\ streams = <<>>
    /\ to_network = <<>>
    /\ inbound_count = 0
    /\ commands_sent = 0

\* The application from its start in the main menu: the run loop with the
\* menu, the session of the room entered and its network task, AI disabled.
InitApp ==
    /\ InitNoNetwork
    /\ InitSession
    /\ InitIdCallers
    /\ InitMainMenu
    /\ InitRoomCallers
    /\ disable_ai = TRUE
    /\ config_target_language = DefaultChatLanguage
    /\ chat_group = NoGroup

NextApp ==
    \/ MainMenuState_update
    \/ MainMenuState_quit
    \/ handle_menu_input
    \/ handle_create_room_input
    \/ handle_join_room_input
    \/ update_begin
    \/ update_events
    \/ draw
    \/ handle_key_event_enter
    \/ poll_no_change
    \/ ChatState_quit
    \/ run_break
    \/ translation_worker_start
    \/ NetworkTaskState_new
    \/ TaskRecvCommand

SpecApp == InitApp /\ [][NextApp]_vars

\* The session with AI disabled, its network task and the substrate, with a
\* user who submits a message and quits: the ChatState is dropped while the
\* task may still have commands queued and an inbound stream open.
InitQuit ==
    /\ InitNetwork
    /\ InitSession
    /\ InitIdCallers
    /\ InitChatEntered
    /\ InitRoomCallers
    /\ disable_ai = TRUE
    /\ config_target_language = DefaultChatLanguage
    /\ chat_group = RoomGroup

NextQuit ==
    \/ update_begin
    \/ update_events
    \/ draw
    \/ handle_key_event_enter
    \/ poll_no_change
    \/ ChatState_quit
    \/ run_break
    \/ NetworkTaskState_new
    \/ TaskRecvCommand
    \/ TaskRecvNone
    \/ TaskRecvFromNetwork
    \/ SubstrateDelivers
    \/ TaskRecvStreamEnd
    \/ SubstrateEndsStream
    \/ translation_worker_start

SpecQuit == InitQuit /\ [][NextQuit]_vars

\* The run loop in the Chat state against any source of events: in the place
\* of the network task and the substrate, any NetworkEvent may be put on the
\* event queue at any time; the translation worker runs as it is, and the
\* only key the user presses is the quit key.
NetworkEvents ==
    {Ev_MessageReceived(m) : m \in NetworkMessages}
    \cup {Ev_Subscribed(g) : g \in Groups}
    \cup {Ev_Error("NetworkCreationFailed", e) : e \in CreateNetworkErrors}
    \cup {Ev_Error("SubscriptionFailed", e) : e \in SubscribeErrors}
    \cup {Ev_Error("SendFailed", e) : e \in SendErrors}
    \cup {Ev_Error("SerializationFailed", e) : e \in SerdeErrors}
    \cup {Ev_Error("SubscriptionLost", ""), Ev_Error("ChannelClosed", "")}

\* event_tx.send(event), for any event
EventArrives ==
    /\ inbound_count < MaxInbound
    /\ inbound_count' = inbound_count + 1
    /\ \E ev \in NetworkEvents : Emit(ev)
    /\ UNCHANGED <<task_state, current_subscription, subscription_ready, command_rx,
                   streams, to_network, commands_sent, session_vars>>

InitLoop ==
    /\ InitNetwork
    /\ InitSession
    /\ InitIdCallers
    /\ InitChatEntered
    /\ InitRoomCallers
    /\ disable_ai = FALSE
    /\ config_target_language = DefaultChatLanguage
    /\ chat_group = RoomGroup

NextLoop ==
    \/ update_begin
    \/ update_events
    \/ draw
    \/ poll_no_change
    \/ ChatState_quit
    \/ run_break
    \/ NetworkTaskState_new
    \/ EventArrives
    \/ translation_worker_start
    \/ translation_worker_recv
    \/ translation_worker_translate

SpecLoop == InitLoop /\ [][NextLoop]_vars

\* The chat screen: the run loop with its frames, a user who scrolls and
\* toggles the translations pane, messages from peers through the network
\* task, and the translation worker.
InitRender ==
    /\ InitNetwork
    /\ InitSession
    /\ InitIdCallers
    /\ InitChatEntered
    /\ InitRoomCallers
    /\ disable_ai = FALSE
    /\ config_target_language = DefaultChatLanguage
    /\ chat_group = RoomGroup

NextRender ==
    \/ update_begin
    \/ update_events
    \/ draw
    \/ poll_no_change
    \/ handle_key_event_scroll
    \/ handle_key_event_toggle
    \/ NetworkTaskState_new
    \/ TaskRecvCommand
    \/ TaskRecvFromNetwork
    \/ SubstrateDelivers
    \/ translation_worker_start
    \/ translation_worker_recv
    \/ translation_worker_translate

SpecRender == InitRender /\ [][NextRender]_vars

\* The session with AI enabled, a translator that initializes and never
\* fails, local and received messages and a change of the target language.
\* The run loop goes on from each of its positions (the poll returns after
\* 16 ms), and the worker, a spawned task, goes on whenever it can.
InitLive ==
    /\ InitNetwork
    /\ InitSession
    /\ InitIdCallers
    /\ InitChatEntered
    /\ InitRoomCallers
    /\ disable_ai = FALSE
    /\ config_target_language = DefaultChatLanguage
    /\ chat_group = RoomGroup

NextLive ==
    \/ update_begin
    \/ update_events
    \/ draw
    \/ poll_no_change
    \/ handle_key_event_enter
    \/ set_target_language
    \/ EventArrives
    \/ translation_worker_start_Ok
    \/ translation_worker_recv
    \/ translation_worker_translate_Ok

FairLive ==
    /\ WF_vars(update_begin)
    /\ WF_vars(update_events)
    /\ WF_vars(draw)
    /\ WF_vars(poll_no_change)
    /\ WF_vars(translation_worker_start_Ok)
    /\ WF_vars(translation_worker_recv)
    /\ WF_vars(translation_worker_translate_Ok)

SpecLive == InitLive /\ [][NextLive]_vars /\ FairLive

\* ------------------------------------------------------------------------
\* Properties
\* ------------------------------------------------------------------------
\* The events a step appends to the event queue, and the commands it appends
\* to the command queue.
EmitsOne ==
    /\ Len(event_rx') = Len(event_rx) + 1
    /\ SubSeq(event_rx', 1, Len(event_rx)) = event_rx

Emitted == event_rx'[Len(event_rx')]

EmitsNothing == event_rx' = event_rx

\* C1: as long as the target language does not change, at most one
\* TranslationRequest is enqueued for a message id, whether its response is
\* pending, was dropped by the worker or has been applied.
C1_AtMostOneRequestPerId ==
    \A id \in MessageIds : requests_enqueued[id] <= 1

\* A tick has passed over a message whose request was dropped by the worker:
\* it has no translation, its id is in the requested set, nothing is pending.
C1_Witness ==
    /\ pc = "events"
    /\ lang_changes = 0
    /\ worker_state = "idle"
    /\ request_rx = <<>>
    /\ response_rx = <<>>
    /\ \E i \in 1..Len(messages) :
          /\ ~messages[i].translation.some
          /\ messages[i].id \in translation_requests_sent
          /\ requests_enqueued[messages[i].id] = 1
    /\ \E i \in 1..Len(messages) : messages[i].translation.some

\* C2: a change of the target language clears the translation and the
\* translation language of every message and clears the requested set in
\* full, so that every existing message is requested once more.
C2_LanguageChangeClearsRequested ==
    [][lang_changes' # lang_changes
       => /\ \A i \in 1..Len(messages') :
                /\ ~messages'[i].translation.some
                /\ ~messages'[i].translation_language.some
          /\ translation_requests_sent' = {}]_vars

\* The commands a step appends to the command queue.
AppendedCommands == SubSeq(command_rx', Len(command_rx) + 1, Len(command_rx'))

SubscribesIn(commands) ==
    Cardinality({i \in 1..Len(commands) : commands[i].type = "Subscribe"})

\* The tick that follows one whose event drain met SubscriptionLost enqueues
\* exactly one Subscribe, for the chat group of the session.
ResubscribesOnNextTick ==
    [][(pc = "update" /\ pc' = "events" /\ tick_lost # "none")
       => /\ command_rx' = command_rx \o AppendedCommands
          /\ SubscribesIn(AppendedCommands) = 1
          /\ AppendedCommands[1] = Cmd_Subscribe(chat_group)]_vars

\* The event drain of a tick enqueues no command.
NoCommandWhileDraining ==
    [][(pc = "events" /\ pc' = "draw") => command_rx' = command_rx]_vars

Handles(type) ==
    /\ task_state = "running"
    /\ command_rx # <<>>
    /\ Head(command_rx).type = type
    /\ command_rx' = Tail(command_rx)

\* The step is the task taking the oldest item off the stream it holds.
ReceivesItem ==
    /\ task_state = "running"
    /\ current_subscription # 0
    /\ streams[current_subscription].buf # <<>>
    /\ streams' = [streams EXCEPT ![current_subscription].buf = Tail(@)]
    /\ command_rx' = command_rx

ReceivedItem == Head(streams[current_subscription].buf)

SubscriptionUnchanged ==
    /\ current_subscription' = current_subscription
    /\ subscription_ready' = subscription_ready
    /\ streams' = streams

IsError(ev, kind) == ev.type = "Error" /\ ev.kind = kind

\* C4: a SendMessage handled while no subscription is held produces exactly
\* one Error(ChannelClosed) and nothing else: no subscription appears, nothing
\* is transmitted, and the task keeps running.
C4_SendWithoutSubscription ==
    [][Handles("SendMessage") /\ current_subscription = 0
       => /\ event_rx' = Append(event_rx, Ev_Error("ChannelClosed", ""))
          /\ current_subscription' = 0
          /\ SubscriptionUnchanged
          /\ to_network' = to_network
          /\ task_state' = "running"]_vars

\* A send without subscription was answered and a later Subscribe was served.
C4_Witness ==
    /\ event_rx = <<Ev_Error("ChannelClosed", ""), Ev_Subscribed(GroupA)>>
    /\ current_subscription = 1
    /\ to_network = <<>>

\* C5: a Subscribe whose substrate subscribe fails emits exactly one
\* Error(SubscriptionFailed) and leaves no subscription held, whether or not
\* one was held before.
C5_FailedSubscribeLeavesNone ==
    [][Handles("Subscribe") /\ Len(streams') = Len(streams)
       => /\ EmitsOne
          /\ IsError(Emitted, "SubscriptionFailed")
          /\ current_subscription' = 0]_vars

\* C6: the task holds no subscription or the newest one; a successful
\* Subscribe emits exactly one Subscribed(topic), holds the new pair only and
\* discards what the prior stream had buffered; a delivered message is always
\* taken from the held stream.
C6_ZeroOrOneSubscription ==
    /\ [](/\ current_subscription \in {0, Len(streams)}
          /\ subscription_ready = current_subscription
          /\ \A i \in 1..Len(streams) :
                i # current_subscription => streams[i].buf = <<>>)
    /\ [][Handles("Subscribe") /\ Len(streams') # Len(streams)
          => /\ event_rx' = Append(event_rx, Ev_Subscribed(Head(command_rx).group))
             /\ Len(streams') = Len(streams) + 1
             /\ current_subscription' = Len(streams')
             /\ streams'[Len(streams')] =
                   [group |-> Head(command_rx).group, ended |-> FALSE, buf |-> <<>>]
             /\ \A i \in 1..Len(streams) : streams'[i].buf = <<>>]_vars
    /\ [][EmitsOne /\ Emitted.type = "MessageReceived"
          => /\ ReceivesItem
             /\ current_subscription = Len(streams)
             /\ from_slice(ReceivedItem.bytes).ok
             /\ Emitted = Ev_MessageReceived(from_slice(ReceivedItem.bytes).msg)]_vars

\* A second Subscribe replaced a live subscription whose stream had been given
\* an item.
C6_Witness ==
    /\ Len(streams) = 2
    /\ current_subscription = 2
    /\ ~streams[1].ended
    /\ inbound_count = 1
    /\ streams[2].buf = <<>>
    /\ event_rx = <<Ev_Subscribed(GroupA), Ev_Subscribed(GroupB)>>

\* C7: Error(SubscriptionLost) is emitted only for the held stream once it has
\* ended and is drained, exactly one event, and the pair is dropped; a dropped
\* stream is never held again, so each closure is reported at most once; the
\* task keeps running with its command queue untouched.
C7_StreamEndReportedOnce ==
    /\ [][EmitsOne /\ IsError(Emitted, "SubscriptionLost")
          => /\ current_subscription # 0
             /\ streams[current_subscription].ended
             /\ streams[current_subscription].buf = <<>>
             /\ current_subscription' = 0
             /\ subscription_ready' = 0
             /\ streams' = streams
             /\ command_rx' = command_rx
             /\ task_state' = "running"]_vars
    /\ [][current_subscription' # current_subscription
          => \/ current_subscription' = 0
             \/ /\ current_subscription' = Len(streams) + 1
                /\ Len(streams') = Len(streams) + 1
                /\ ~streams'[current_subscription'].ended]_vars

\* Two subscriptions were established one after the other and each closure
\* was reported once.
C7_Witness ==
    /\ Len(streams) = 2
    /\ current_subscription = 0
    /\ event_rx = <<Ev_Subscribed(GroupA), Ev_Error("SubscriptionLost", ""),
                    Ev_Subscribed(GroupA), Ev_Error("SubscriptionLost", "")>>

\* C8: with a subscription held, a SendMessage that does not serialize emits
\* exactly one Error(SerializationFailed) and transmits nothing, one that
\* serializes is either transmitted with no event or emits exactly one
\* Error(SendFailed); the held subscription is unchanged in every case.
C8_SendKeepsSubscription ==
    [][Handles("SendMessage") /\ current_subscription # 0
       => /\ SubscriptionUnchanged
          /\ task_state' = "running"
          /\ IF to_vec(Head(command_rx).msg).ok
             THEN \/ /\ EmitsNothing
                     /\ to_network' =
                           Append(to_network,
                                  [stream |-> current_subscription,
                                   bytes |-> to_vec(Head(command_rx).msg).bytes])
                  \/ /\ EmitsOne
                     /\ IsError(Emitted, "SendFailed")
                     /\ to_network' = to_network
             ELSE /\ EmitsOne
                  /\ IsError(Emitted, "SerializationFailed")
                  /\ to_network' = to_network]_vars

\* Both failures have happened on a subscription that is still held.
C8_Witness ==
    /\ current_subscription = 1
    /\ ~streams[1].ended
    /\ Len(event_rx) = 3
    /\ event_rx[1] = Ev_Subscribed(GroupA)
    /\ IsError(event_rx[2], "SerializationFailed")
    /\ IsError(event_rx[3], "SendFailed")
    /\ to_network = <<>>

\* C9: an inbound item whose payload parses emits exactly one MessageReceived
\* on either path; a payload that does not parse emits exactly one
\* Error(SerializationFailed) on the gossip path and nothing on the sync path;
\* a sync item without payload emits nothing; the subscription stays held.
C9_InboundPayload ==
    [][ReceivesItem
       => /\ current_subscription' = current_subscription
          /\ subscription_ready' = subscription_ready
          /\ task_state' = "running"
          /\ LET item == ReceivedItem
                 parsed == from_slice(item.bytes)
             IN  CASE item.kind = "GossipMessage" /\ parsed.ok ->
                         event_rx' = Append(event_rx, Ev_MessageReceived(parsed.msg))
                   [] item.kind = "GossipMessage" /\ ~parsed.ok ->
                         EmitsOne /\ IsError(Emitted, "SerializationFailed")
                   [] item.kind # "GossipMessage" /\ item.has_payload /\ parsed.ok ->
                         event_rx' = Append(event_rx, Ev_MessageReceived(parsed.msg))
                   [] OTHER -> EmitsNothing]_vars

\* Two items were taken off the held stream and the only event they left is a
\* gossip parse failure: the other one was dropped in silence.
C9_Witness ==
    /\ current_subscription = 1
    /\ inbound_count = 2
    /\ streams[1].buf = <<>>
    /\ Len(event_rx) = 2
    /\ event_rx[1] = Ev_Subscribed(GroupA)
    /\ IsError(event_rx[2], "SerializationFailed")

\* C10: a failed substrate join emits exactly one
\* Error(NetworkCreationFailed) and ends the task, which takes no command off
\* the queue and emits nothing from then on.
C10_JoinFailureTerminates ==
    /\ [][task_state = "starting" /\ event_rx' # event_rx
          => /\ EmitsOne
             /\ IsError(Emitted, "NetworkCreationFailed")
             /\ task_state' = "ended"
             /\ command_rx' = command_rx]_vars
    /\ [][EmitsOne /\ IsError(Emitted, "NetworkCreationFailed")
          => task_state = "starting" /\ task_state' = "ended"]_vars
    /\ [][task_state = "ended"
          => /\ task_state' = "ended"
             /\ command_rx' = command_rx
             /\ \/ event_rx' = event_rx
                \/ event_rx # <<>> /\ event_rx' = Tail(event_rx)
             /\ current_subscription' = 0]_vars

\* The task has ended on a failed join with commands still in its queue.
C10_Witness ==
    /\ task_state = "ended"
    /\ Len(command_rx) = 2
    /\ Len(event_rx) = 1
    /\ IsError(event_rx[1], "NetworkCreationFailed")

\* ------------------------------------------------------------------------
\* Session properties
\* ------------------------------------------------------------------------
\* The step is the first part of a tick (update, steps 1 to 4).
TickBegins == pc = "update" /\ pc' = "events"

\* The step is the event drain of a tick (update, step 5).
TickDrains == pc = "events" /\ pc' = "draw"

\* The status left by a processed Error(NetworkCreationFailed(detail)).
NetworkUnavailable ==
    \E e \in CreateNetworkErrors : connection_status = StatusError(e)

\* C11: once Error(NetworkCreationFailed) is processed, ConnectionStatus is
\* Error(detail) in every later state, and at most one later tick attempts a
\* subscribe: that attempt fails, sets the subscribed flag, and the flag is
\* never cleared again.
C11_NoSpinRetry ==
    /\ [](NetworkUnavailable => task_state = "ended" /\ event_rx = <<>>)
    /\ [][NetworkUnavailable => connection_status' = connection_status]_vars
    /\ [][NetworkUnavailable /\ TickBegins
          => subscribed' /\ command_rx' = command_rx]_vars
    /\ [][NetworkUnavailable /\ subscribed => subscribed']_vars

\* The join failure was processed, the one later attempt was made, and a
\* message submitted afterwards went through a further tick.
C11_Witness ==
    /\ NetworkUnavailable
    /\ subscribed
    /\ pc = "poll"
    /\ local_count = 1
    /\ pending_outgoing_messages = <<>>
    /\ command_rx = <<>>

\* C12: with translation disabled the worker goes from its start straight to
\* its exit and holds no request, the request and response queues stay empty,
\* no id is ever marked as requested, and no message has a translation.
C12_DisabledTranslation ==
    disable_ai
    => /\ worker_state \in {"starting", "exited"}
       /\ worker_request = NoRequest
       /\ request_rx = <<>>
       /\ response_rx = <<>>
       /\ translation_requests_sent = {}
       /\ \A id \in MessageIds : requests_enqueued[id] = 0
       /\ \A i \in 1..Len(messages) :
             ~messages[i].translation.some /\ ~messages[i].translation_language.some

\* The worker has exited, and ticks have gone on to show a submitted message
\* and a message delivered from a peer.
C12_Witness ==
    /\ disable_ai
    /\ worker_state = "exited"
    /\ pc = "poll"
    /\ Len(messages) = 2
    /\ messages[1].sender = Username
    /\ messages[2].sender \in Senders
    /\ connection_status = Connected

\* ------------------------------------------------------------------------
\* Translation worker properties
\* ------------------------------------------------------------------------
\* C13: the worker pulls the oldest request only, holds one request at a
\* time, and answers a held request at most once, with the message id and
\* the target language of that request, before it pulls the next one; so the
\* responses are, in order, those of the pulled requests that succeeded.
C13_WorkerFifoAtMostOnce ==
    /\ [](worker_state = "translating" <=> worker_request # NoRequest)
    /\ [][Len(request_rx') < Len(request_rx)
          => /\ worker_state = "idle"
             /\ worker_state' = "translating"
             /\ worker_request' = Head(request_rx)
             /\ request_rx' = Tail(request_rx)
             /\ response_rx' = response_rx]_vars
    /\ [][Len(response_rx') > Len(response_rx)
          => /\ worker_state = "translating"
             /\ worker_state' = "idle"
             /\ worker_request' = NoRequest
             /\ request_rx' = request_rx
             /\ Len(response_rx') = Len(response_rx) + 1
             /\ SubSeq(response_rx', 1, Len(response_rx)) = response_rx
             /\ response_rx'[Len(response_rx')].message_id = worker_request.message_id
             /\ response_rx'[Len(response_rx')].language
                   = worker_request.target_language]_vars
    /\ [][worker_request' # worker_request
          => worker_request = NoRequest \/ worker_request' = NoRequest]_vars

\* Two requests were answered in the order in which they were queued.
C13_Witness ==
    /\ Len(response_rx) = 2
    /\ response_rx[1].message_id = 0
    /\ response_rx[2].message_id = 1
    /\ response_rx[1].language = config_target_language
    /\ worker_state = "idle"
    /\ request_rx = <<>>

\* A request or a response for the message id is queued or held by the worker.
TranslationPending(id) ==
    \/ \E i \in 1..Len(request_rx) : request_rx[i].message_id = id
    \/ worker_request.message_id = id
    \/ \E i \in 1..Len(response_rx) : response_rx[i].message_id = id

\* The message with this id was requested, nothing is pending for it, and it
\* has no translation.
DroppedRequest(id) ==
    /\ \E i \in 1..Len(messages) : messages[i].id = id /\ ~messages[i].translation.some
    /\ id \in translation_requests_sent
    /\ ~TranslationPending(id)

\* C14: when the inference call fails the worker emits nothing, does not put
\* the request back and is ready for the next one; from then on, as long as
\* the target language does not change, the message stays without a
\* translation and no new request is issued for it.
C14_FailedRequestDropped ==
    /\ [][worker_state = "translating" /\ worker_state' = "idle"
          /\ response_rx' = response_rx
          => /\ request_rx' = request_rx
             /\ worker_request' = NoRequest
             /\ \E id \in MessageIds :
                   id = worker_request.message_id /\ DroppedRequest(id)']_vars
    /\ [][\A id \in MessageIds :
             DroppedRequest(id) /\ lang_changes' = lang_changes
             => DroppedRequest(id)']_vars

\* The request for message 0 failed, the worker went on to answer the request
\* for message 1.
C14_Witness ==
    /\ DroppedRequest(0)
    /\ lang_changes = 0
    /\ Len(response_rx) = 1
    /\ response_rx[1].message_id = 1
    /\ worker_state = "idle"

\* C15: the worker returns only from its start, without having taken a
\* request; once it has returned it takes and answers nothing, a request the
\* orchestrator tries to send is neither queued nor marked as requested, and
\* no message ever has a translation.
C15_InitFailureSilencesWorker ==
    /\ [](worker_state = "exited"
          => /\ response_rx = <<>>
             /\ worker_request = NoRequest
             /\ \A i \in 1..Len(messages) : ~messages[i].translation.some)
    /\ [][worker_state # "exited" /\ worker_state' = "exited"
          => /\ worker_state = "starting"
             /\ request_rx' = request_rx
             /\ response_rx' = response_rx]_vars
    /\ [][worker_state = "exited"
          => /\ worker_state' = "exited"
             /\ request_rx' = request_rx
             /\ translation_requests_sent' = translation_requests_sent]_vars

\* The translator failed to initialize with one request queued; a later tick
\* has passed over a second message, whose request could not be sent.
C15_Witness ==
    /\ ~disable_ai
    /\ worker_state = "exited"
    /\ Len(request_rx) = 1
    /\ Len(messages) = 2
    /\ translation_requests_sent = {0}
    /\ pc = "events"

\* ------------------------------------------------------------------------
\* Message id properties
\* ------------------------------------------------------------------------
\* Where an id lives: in a slot of a chat, or with a caller about to push.
IdSlots ==
    { <<ch, i>> : ch \in ChatIds, i \in 1..MaxIdCalls }

SlotUsed(sl) == sl[2] <= Len(chats[sl[1]])

SlotId(sl) == chats[sl[1]][sl[2]].id

\* C16: no two messages, pushed to any chat or just created by any caller,
\* have the same id; every id handed out is below the counter; within one
\* chat the ids are strictly increasing in list order.
C16_UniqueIncreasingIds ==
    /\ \A s1 \in IdSlots, s2 \in IdSlots :
          SlotUsed(s1) /\ SlotUsed(s2) /\ s1 # s2 => SlotId(s1) # SlotId(s2)
    /\ \A c \in Callers, sl \in IdSlots :
          callers[c].at = "push" /\ SlotUsed(sl) => callers[c].id # SlotId(sl)
    /\ \A c1 \in Callers, c2 \in Callers :
          c1 # c2 /\ callers[c1].at = "push" /\ callers[c2].at = "push"
          => callers[c1].id # callers[c2].id
    /\ \A sl \in IdSlots : SlotUsed(sl) => SlotId(sl) \in 0..(next_id - 1)
    /\ \A ch \in ChatIds : \A i \in 1..Len(chats[ch]), j \in 1..Len(chats[ch]) :
          i < j => chats[ch][i].id < chats[ch][j].id

\* Two callers took their ids in one order and pushed in the other, so the
\* ids of the two chats interleave.
C16_Witness ==
    /\ Len(chats[1]) = 2
    /\ Len(chats[2]) = 2
    /\ chats[1][1].id = 1
    /\ chats[2][1].id = 0
    /\ chats[1][2].id = 2
    /\ chats[2][2].id = 3

\* ------------------------------------------------------------------------
\* Connection status properties
\* ------------------------------------------------------------------------
\* The event clears the subscribed flag.
ClearsFlag(ev) ==
    ev.type = "Error"
    /\ ev.kind \in {"SubscriptionLost", "ChannelClosed", "NetworkCreationFailed",
                    "SubscriptionFailed"}

\* The status after an event, given the status before it.
StatusSetBy(status, ev) ==
    CASE ev.type = "Subscribed" -> Connected
      [] ev.type = "Error" /\ ev.kind \in {"SubscriptionLost", "ChannelClosed"} ->
            Disconnected
      [] ev.type = "Error" /\ ev.kind \in {"NetworkCreationFailed", "SubscriptionFailed"} ->
            StatusError(ev.detail)
      [] OTHER -> status

RECURSIVE StatusAfter(_, _)
StatusAfter(status, events) ==
    IF events = <<>>
    THEN status
    ELSE StatusAfter(StatusSetBy(status, Head(events)), Tail(events))

\* C17: the status is Connecting until the task has started; it changes in
\* the event drain of a tick only, to what the drained events set in their
\* order (Subscribed: Connected; SubscriptionLost, ChannelClosed:
\* Disconnected; NetworkCreationFailed, SubscriptionFailed: Error(detail));
\* the drain clears the subscribed flag iff one of the four errors is in it.
C17_StatusFollowsEvents ==
    /\ [](task_state = "starting" => connection_status = Connecting)
    /\ [][TickDrains
          => /\ connection_status' = StatusAfter(connection_status, event_rx)
             /\ subscribed' = (subscribed
                               /\ \A i \in 1..Len(event_rx) : ~ClearsFlag(event_rx[i]))]_vars
    /\ [][~TickDrains => connection_status' = connection_status]_vars

\* A drain ended on Error(ChannelClosed): Disconnected, flag clear, and no
\* SubscriptionLost was in it.
C17_Witness ==
    /\ pc = "poll"
    /\ connection_status = Disconnected
    /\ ~subscribed
    /\ tick_lost = "none"
    /\ local_count = 1

\* Every drained event is Error(SendFailed) or Error(SerializationFailed).
OnlySendErrors(events) ==
    /\ events # <<>>
    /\ \A i \in 1..Len(events) :
          /\ events[i].type = "Error"
          /\ events[i].kind \in {"SendFailed", "SerializationFailed"}

\* C18: a drain of Error(SendFailed) and Error(SerializationFailed) events
\* leaves the status, the subscribed flag, the message list, the id counter,
\* the requested-id set and the outgoing queue as they were, and enqueues no
\* command.
C18_SendErrorsLeaveState ==
    [][TickDrains /\ OnlySendErrors(event_rx)
       => /\ UNCHANGED <<connection_status, subscribed, messages, next_id,
                         translation_requests_sent, pending_outgoing_messages>>
          /\ command_rx' = command_rx]_vars

\* The submitted message was handled on the one subscription ever held and was
\* not transmitted: its Error(SendFailed) has been drained, and the session is
\* still Connected with its flag set.
C18_Witness ==
    /\ pc = "poll"
    /\ local_count = 1
    /\ pending_outgoing_messages = <<>>
    /\ command_rx = <<>>
    /\ event_rx = <<>>
    /\ to_network = <<>>
    /\ Len(streams) = 1
    /\ current_subscription = 1
    /\ connection_status = Connected
    /\ subscribed

\* C19: the first part of a tick enqueues a Subscribe only if the subscribed
\* flag is clear, then exactly one, for the chat group (none reaches the queue
\* of a task that has ended), and it leaves the flag set; no other step
\* enqueues a command; the flag is cleared only by a drain that holds
\* SubscriptionLost, ChannelClosed, NetworkCreationFailed or
\* SubscriptionFailed.
C19_SubscribeOnlyWhenFlagClear ==
    /\ [][TickBegins
          => /\ subscribed'
             /\ command_rx' = command_rx \o AppendedCommands
             /\ SubscribesIn(AppendedCommands) <= 1
             /\ SubscribesIn(AppendedCommands) = 1
                => ~subscribed /\ AppendedCommands[1] = Cmd_Subscribe(chat_group)
             /\ ~subscribed /\ task_state # "ended"
                => SubscribesIn(AppendedCommands) = 1]_vars
    /\ [][~TickBegins => Len(command_rx') <= Len(command_rx)]_vars
    /\ [][subscribed /\ ~subscribed'
          => /\ TickDrains
             /\ \E i \in 1..Len(event_rx) : ClearsFlag(event_rx[i])]_vars

\* A second Subscribe has just been enqueued, after Error(SubscriptionFailed)
\* for the first one was processed.
C19_Witness ==
    /\ pc = "events"
    /\ command_rx = <<Cmd_Subscribe(chat_group)>>
    /\ \E e \in SubscribeErrors : connection_status = StatusError(e)
    /\ subscribed
    /\ event_rx = <<>>
    /\ streams = <<>>

\* ------------------------------------------------------------------------
\* Outgoing message properties
\* ------------------------------------------------------------------------
IsSendMessage(command) == command.type = "SendMessage"

\* The SendMessage commands a step appends to the command queue.
AppendedSends == SelectSeq(AppendedCommands, IsSendMessage)

\* What holds of the outgoing queue whichever way its messages are sent: it
\* is empty once the first part of a tick has run, it grows by the one line a
\* key event submits, and no step but the first part of a tick enqueues
\* commands.
OutgoingQueueDiscipline ==
    /\ [](pc # "update" => pending_outgoing_messages = <<>>)
    /\ [][TickBegins
          => /\ command_rx' = command_rx \o AppendedCommands
             /\ pending_outgoing_messages' = <<>>]_vars
    /\ [][~TickBegins
          => /\ Len(command_rx') <= Len(command_rx)
             /\ \/ pending_outgoing_messages' = pending_outgoing_messages
                \/ /\ pc = "poll"
                   /\ local_count' = local_count + 1
                   /\ Len(pending_outgoing_messages')
                         = Len(pending_outgoing_messages) + 1
                   /\ SubSeq(pending_outgoing_messages', 1,
                             Len(pending_outgoing_messages))
                         = pending_outgoing_messages]_vars

\* C20 as stated: every submitted message yields exactly one SendMessage
\* command, enqueued by the next tick in submission order; the outgoing queue
\* is empty at the end of every tick and nothing is enqueued twice.
C20_EachSubmissionOneCommand ==
    /\ OutgoingQueueDiscipline
    /\ [][TickBegins
          => AppendedSends = outgoing_commands(pending_outgoing_messages)]_vars

\* C20: every submitted message is passed to send_message exactly once, by
\* the next tick and in submission order: while the network task has not
\* ended this enqueues exactly one SendMessage command per message, once it
\* has ended none is enqueued and the message is dropped; the outgoing queue
\* is empty at the end of every tick and nothing is enqueued twice.
C20_EachSubmissionSentOnce ==
    /\ OutgoingQueueDiscipline
    /\ [][TickBegins
          => AppendedSends = (IF task_state = "ended"
                              THEN <<>>
                              ELSE outgoing_commands(pending_outgoing_messages))]_vars

\* Two lines were submitted in two ticks and their commands are queued, in
\* that order, behind the Subscribe of the first tick.
C20_Witness ==
    /\ pc = "events"
    /\ local_count = 2
    /\ pending_outgoing_messages = <<>>
    /\ Len(command_rx) = 3
    /\ command_rx[1].type = "Subscribe"
    /\ command_rx[2] = Cmd_SendMessage(NetworkMessage("hi", Now, Username))
    /\ command_rx[3] = Cmd_SendMessage(NetworkMessage("yo", Now, Username))

\* ------------------------------------------------------------------------
\* C21
IsMessageReceived(event) == event.type = "MessageReceived"

\* The MessageReceived events of the queue, oldest first.
ReceivedInDrain == SelectSeq(event_rx, IsMessageReceived)

\* Every message of the list keeps its place, id, content and sender.
MessagesKept ==
    /\ Len(messages') >= Len(messages)
    /\ \A i \in 1..Len(messages) :
          /\ messages'[i].id = messages[i].id
          /\ messages'[i].content = messages[i].content
          /\ messages'[i].sender = messages[i].sender

EntersCreatedRoom ==
    /\ input_mode = "CreatingRoom"
    /\ room_name_input # <<>>
    /\ \E uuid \in Uuids : room' = Room_new(room_name_input, uuid)

\* The step enters the chat of the room the typed identifier parses to.
EntersJoinedRoom ==
    /\ input_mode = "JoiningRoom"
    /\ room_id_input # <<>>
    /\ from_identifier(room_id_input).kind = "Ok"
    /\ room' = from_identifier(room_id_input).room

\* The quit intent: Ctrl+Q read by the handler of the current state.
QuitIntent == MainMenuState_quit \/ ChatState_quit

\* C22: the application state goes MainMenu -> Chat -> Quit. Quit is never
\* left and the only step of run in it ends the loop; Chat is left only for
\* Quit; MainMenu is left for Chat only by creating a room from a non-empty
\* name or by joining with an identifier that parses; Quit is entered only by
\* a key handler, and wherever a key is read in MainMenu (in every input
\* mode) or in Chat the quit intent is available; the loop ends in Quit only.
C22_AppStateMachine ==
    /\ [][/\ app_state = "Quit" => app_state' = "Quit" /\ (pc' # pc => pc' = "done")
          /\ app_state = "Chat" => app_state' \in {"Chat", "Quit"}
          /\ app_state = "MainMenu" /\ app_state' = "Chat"
                => pc = "poll" /\ (EntersCreatedRoom \/ EntersJoinedRoom)
          /\ app_state # "Quit" /\ app_state' = "Quit" => pc = "poll" /\ pc' = "update"]_vars
    /\ [](pc = "poll" /\ app_state \in {"MainMenu", "Chat"} => ENABLED QuitIntent)
    /\ [](app_state = "Quit" /\ pc = "update" => ENABLED run_break)
    /\ [](pc = "done" => app_state = "Quit")

\* The user joined a room, quit from the chat, and run has returned.
C22_Witness ==
    /\ app_state = "Quit"
    /\ pc = "done"
    /\ room = from_identifier(<<"a", "-">> \o UuidText \o <<"-", "z", "-", "z">>).room
    /\ task_state = "running"

\* The join-room input holds a text that does not parse to a room.
HoldsMalformedIdentifier ==
    /\ app_state = "MainMenu"
    /\ input_mode = "JoiningRoom"
    /\ room_id_input # <<>>
    /\ from_identifier(room_id_input).kind # "Ok"

\* C23: no step panics; while the join-room input holds a malformed
\* identifier no key (Enter included) enters the chat, creates a session state
\* or a network task, and the status message of the menu changes only to the
\* error that Room::from_identifier returned.
C23_MalformedIdentifierHandled ==
    [][/\ pc' # "panicked"
       /\ HoldsMalformedIdentifier
             => /\ app_state' # "Chat"
                /\ room' = NoRoom
                /\ task_state' = "absent"
                /\ app_state' = "MainMenu" /\ status_message' # status_message
                      => /\ from_identifier(room_id_input).kind = "Err"
                         /\ status_message'
                               = StatusMessage("Invalid room ID: {}", <<>>,
                                               from_identifier(room_id_input).error)]_vars

\* ------------------------------------------------------------------------
\* Room identifier properties
\* ------------------------------------------------------------------------
\* The checks on an identifier counted in chars, in their order: "" when the
\* identifier passes them all.
RejectionInChars(identifier) ==
    IF \A k \in 1..Len(identifier) : identifier[k] # "-"
    THEN ErrNoDash
    ELSE LET dash == CHOOSE k \in 1..Len(identifier) :
                        identifier[k] = "-" /\ \A j \in 1..(k-1) : identifier[j] # "-"
             rest == SubSeq(identifier, dash + 1, Len(identifier))
         IN IF Len(rest) < 36 THEN ErrTooShort
            ELSE IF Len(rest) = 36 \/ rest[37] # "-" THEN ErrNoNameDash
            ELSE IF ~Uuid_parse_str(SubSeq(rest, 1, 36)).ok THEN ErrUuid
            ELSE ""

\* the chars after the separator that follows the 36 chars of the UUID
NameInChars(identifier) ==
    LET dash == CHOOSE k \in 1..Len(identifier) :
                   identifier[k] = "-" /\ \A j \in 1..(k-1) : identifier[j] # "-"
    IN SubSeq(identifier, dash + 38, Len(identifier))

\* C24: Room::from_identifier rejects an identifier without '-', then one
\* with fewer than 36 chars after the first '-', then one whose char after
\* the 36 chars of the UUID section is not '-', then one whose UUID section is
\* no UUID, each with the error of that check; every other identifier is
\* accepted, with the chars after that separator as the name.
C24_RejectionOrder ==
    parse_result.called
        => LET rejection == RejectionInChars(parse_result.identifier)
           IN IF rejection # ""
              THEN parse_result.outcome = Err(rejection)
              ELSE /\ parse_result.outcome.kind = "Ok"
                   /\ parse_result.outcome.room.name
                         = NameInChars(parse_result.identifier)

\* C25: parsing the identifier of a room that Room::new made, whatever its
\* name, succeeds and gives the name, the Uuid and the topic (chat group) of
\* that room.
C25_IdentifierRoundTrip ==
    \A i \in 1..Len(rooms) :
        parse_result.called /\ parse_result.identifier = rooms[i].identifier
            => /\ parse_result.outcome.kind = "Ok"
               /\ parse_result.outcome.room.name = rooms[i].name
               /\ parse_result.outcome.room.uuid = rooms[i].uuid
               /\ to_chat_group(parse_result.outcome.room) = to_chat_group(rooms[i])

\* The identifier of a room whose name has a dash was parsed, after a room
\* with a name of a two-byte char was made.
C25_Witness ==
    /\ Len(rooms) = 2
    /\ rooms[1].name = <<TwoByteChar>>
    /\ rooms[2].name = <<"z", "-", "z">>
    /\ parse_result.called
    /\ parse_result.identifier = rooms[2].identifier
    /\ parse_result.outcome.kind = "Ok"

TransmitsOne ==
    /\ Len(to_network') = Len(to_network) + 1
    /\ SubSeq(to_network', 1, Len(to_network)) = to_network

Transmitted == to_network'[Len(to_network')].bytes

FailsToSerialize == EmitsOne /\ IsError(Emitted, "SerializationFailed")

\* The payloads that are the serialization of some message.
IsSerialized(bytes, m) == to_vec(m).ok /\ to_vec(m).bytes = bytes

\* A received payload that is the serialization of a message is reported as
\* MessageReceived with the fields of that message.
DeliveredUnchanged ==
    ReceivesItem /\ ReceivedItem.has_payload
        => \A m \in NetworkMessages :
              IsSerialized(ReceivedItem.bytes, m)
                  => EmitsOne /\ Emitted = Ev_MessageReceived(m)

C28_MessageFieldsStable ==
    /\ [](\A i \in 1..Len(messages) :
             messages[i].translation.some <=> messages[i].translation_language.some)
    /\ [][\A i \in 1..Len(messages) :
             /\ i <= Len(messages')
             /\ messages'[i].id = messages[i].id
             /\ messages'[i].content = messages[i].content
             /\ messages'[i].sender = messages[i].sender]_vars

\* The first message is translated into the language chosen after it was
\* received, the second one is not translated yet.
C28_Witness ==
    /\ Len(messages) = 2
    /\ lang_changes = 1
    /\ messages[1].translation.some
    /\ messages[1].translation_language = Some(chat_target_language)
    /\ ~messages[2].translation.some
    /\ ~messages[2].translation_language.some

\* ------------------------------------------------------------------------
\* Orchestration loop properties
\* ------------------------------------------------------------------------
\* C29: a tick never waits for a background activity. In the Chat state the
\* first half of a tick (responses, requests, commands) can always be taken
\* when the loop is at update, and the second half (events) can always be
\* taken when the loop is in the middle of a tick, whatever the response and
\* event queues hold and whatever the translation worker and the network
\* task are doing: starting, waiting, busy, exited or ended.
C29_TickNeverWaits ==
    /\ (app_state = "Chat" /\ pc = "update") => ENABLED update_begin
    /\ (app_state = "Chat" /\ pc = "events") => ENABLED update_events

\* A tick has completed although the worker has exited with a request that
\* it will never answer, and both queues read by the tick are empty.
C29_Witness ==
    /\ pc = "poll"
    /\ worker_state = "exited"
    /\ request_rx # <<>>
    /\ response_rx = <<>>
    /\ event_rx = <<>>
    /\ Len(messages) > 0

\* The step is the quit key read after a tick: it touches neither the queues
\* nor the messages.
IsQuitKey ==
    /\ pc = "poll"
    /\ pc' = "update"
    /\ app_state' = "Quit"
    /\ UNCHANGED <<net_vars, worker_vars, messages, connection_status, subscribed>>

\* C30: no background failure ends the run loop. Whatever events arrive (a
\* message, Subscribed, an Error of any of the six kinds) and whatever the
\* translation worker does (answers, drops a request, exits and closes its
\* queues) and whether the network task runs or has ended, the application
\* leaves the Chat state by the quit key only, and then for Quit; in the
\* Chat state the loop is at one of its four positions, has not ended or
\* panicked, and the two halves of the tick and the frame can be taken; the
\* loop ends in the Quit state only.
C30_OnlyQuitEndsChat ==
    /\ [][(app_state = "Chat" /\ app_state' # "Chat") => IsQuitKey]_vars
    /\ [](app_state = "Chat" =>
             /\ pc \in {"update", "events", "draw", "poll"}
             /\ pc = "update" => ENABLED update_begin
             /\ pc = "events" => ENABLED update_events
             /\ pc = "draw" => ENABLED draw
             /\ pc = "poll" => ENABLED poll_no_change)
    /\ [](pc = "done" => app_state = "Quit")
    /\ [](pc # "panicked")

\* The session is still in the Chat state and has completed a tick after the
\* network task ended, the worker exited with a request it never answers,
\* and two error events were handled, the later one a lost subscription.
C30_Witness ==
    /\ app_state = "Chat"
    /\ pc = "poll"
    /\ task_state = "ended"
    /\ worker_state = "exited"
    /\ request_rx # <<>>
    /\ inbound_count = 2
    /\ event_rx = <<>>
    /\ connection_status = Disconnected
    /\ Len(messages) = 1

\* ------------------------------------------------------------------------
\* Unsubscribe
\* ------------------------------------------------------------------------
\* C32: the task handling an Unsubscribe command drops the sink and the
\* stream it holds, with what the stream has buffered, and emits no event
\* and transmits nothing. As long as the task holds no subscription, a
\* SendMessage it handles emits exactly Error(ChannelClosed) and transmits
\* nothing, and the task emits neither MessageReceived nor SubscriptionLost:
\* these two are emitted only for the stream the task holds at that time.
C32_UnsubscribeDropsSilently ==
    /\ [][Handles("Unsubscribe") =>
             /\ current_subscription' = 0
             /\ subscription_ready' = 0
             /\ EmitsNothing
             /\ to_network' = to_network
             /\ Len(streams') = Len(streams)
             /\ \A i \in 1..Len(streams) :
                   /\ i = current_subscription => streams'[i].buf = <<>>
                   /\ i # current_subscription => streams'[i] = streams[i]]_vars
    /\ [][(current_subscription = 0 /\ Handles("SendMessage")) =>
             /\ EmitsOne
             /\ Emitted = Ev_Error("ChannelClosed", "")
             /\ to_network' = to_network
             /\ current_subscription' = 0]_vars
    /\ [][(EmitsOne /\ (IsMessageReceived(Emitted) \/ IsError(Emitted, "SubscriptionLost"))) =>
             /\ current_subscription # 0
             /\ \/ ReceivesItem
                \/ /\ streams[current_subscription].ended
                   /\ streams[current_subscription].buf = <<>>]_vars
    /\ [](\A i \in 1..Len(streams) : i # current_subscription => streams[i].buf = <<>>)

\* Subscribe, Unsubscribe and SendMessage have been handled in this order:
\* the stream of the subscription had received an item and had ended when
\* it was dropped, and the only events are Subscribed and ChannelClosed.
C32_Witness ==
    /\ task_state = "running"
    /\ commands_sent = 3
    /\ command_rx = <<>>
    /\ current_subscription = 0
    /\ Len(streams) = 1
    /\ streams[1].ended
    /\ inbound_count = 1
    /\ event_rx = <<Ev_Subscribed(GroupA), Ev_Error("ChannelClosed", "")>>

\* ------------------------------------------------------------------------
\* Outstanding Subscribe commands
\* ------------------------------------------------------------------------
\* Subscribe commands of the session that the task has not handled yet.
SubscribesQueued ==
    Cardinality({i \in 1..Len(command_rx) : command_rx[i].type = "Subscribe"})

\* Outcomes of handled Subscribe commands that the session has not drained yet.
OutcomesQueued ==
    Cardinality({i \in 1..Len(event_rx) :
                    \/ event_rx[i].type = "Subscribed"
                    \/ IsError(event_rx[i], "SubscriptionFailed")})

\* C33: at most one Subscribe command of the session is outstanding, that is
\* either in the command queue or handled by the task with its Subscribed or
\* SubscriptionFailed event still in the event queue.
C33_AtMostOneSubscribeOutstanding ==
    SubscribesQueued + OutcomesQueued <= 1

\* ------------------------------------------------------------------------
\* Responses and events
\* ------------------------------------------------------------------------
\* The session state the two loops of update work on.
SessionState == EventState(messages, next_id, subscribed, connection_status)

\* One pass of the response loop of update, for one response.
ApplyResponse(st, response) ==
    [st EXCEPT !.messages = update_translation(st.messages, chat_target_language,
                                               response.message_id,
                                               response.translation)]

\* C34: in every reachable state, for every response in the response queue
\* and every event in the event queue, applying the response and then the
\* event gives the same message list (translation fields included), the same
\* status and the same subscribed flag as applying the event and then the
\* response.
C34_ResponseAndEventCommute ==
    \A i \in 1..Len(response_rx) : \A j \in 1..Len(event_rx) :
        process_event(ApplyResponse(SessionState, response_rx[i]), event_rx[j])
        = ApplyResponse(process_event(SessionState, event_rx[j]), response_rx[i])

\* A response for a message of the list and a MessageReceived event are
\* available together: each of the two changes the message list.
C34_Witness ==
    /\ response_rx # <<>>
    /\ event_rx # <<>>
    /\ IsMessageReceived(Head(event_rx))
    /\ \E k \in 1..Len(messages) :
          /\ messages[k].id = Head(response_rx).message_id
          /\ ~messages[k].translation.some
    /\ ApplyResponse(SessionState, Head(response_rx)) # SessionState
    /\ pc = "update"

\* The positions in the response queue of the responses for a message id.
ResponsesFor(id) == {i \in 1..Len(response_rx) : response_rx[i].message_id = id}

\* The newest response for a message id that has one in the queue.
NewestResponseFor(id) ==
    response_rx[CHOOSE i \in ResponsesFor(id) : \A j \in ResponsesFor(id) : j <= i]

\* C35: the first half of a tick applies the responses of the queue: a
\* message with a response for its id gets the text of (the newest such)
\* response as its translation and the language of that response, which is
\* the target language of the request it answers, as its translation
\* language; every other message stays as it is, and no message is added or
\* removed, so a response for an id that no message has changes nothing.
C35_ResponseWrittenWithItsLanguage ==
    [][TickBegins =>
         /\ Len(messages') = Len(messages)
         /\ \A k \in 1..Len(messages) :
               IF ResponsesFor(messages[k].id) = {}
               THEN messages'[k] = messages[k]
               ELSE /\ messages'[k].translation =
                          Some(NewestResponseFor(messages[k].id).translation)
                    /\ messages'[k].translation_language =
                          Some(NewestResponseFor(messages[k].id).language)]_vars

\* ------------------------------------------------------------------------
\* Entering a room
\* ------------------------------------------------------------------------
\* The session has not seen the task handle anything yet: no event has been
\* emitted or drained since the session state was created.
NothingHandledYet ==
    /\ app_state = "Chat"
    /\ connection_status = Connecting
    /\ event_rx = <<>>

\* C36: the step that enters Chat, from create-room or from join-room, makes
\* a session state with an empty message list, requested-id set and outgoing
\* queue, the subscribed flag clear and the status Connecting, for the topic
\* of the room, and starts a network task with empty command and event
\* queues. Until the first tick nothing is in the command queue; the first
\* tick enqueues Subscribe for the topic of the room first (unless the task
\* has ended by then), so that the first command the task ever takes is that
\* Subscribe, whatever the user has submitted.
C36_FreshSessionSubscribesFirst ==
    /\ [][(app_state = "MainMenu" /\ app_state' = "Chat") =>
             /\ EntersCreatedRoom \/ EntersJoinedRoom
             /\ messages' = <<>>
             /\ translation_requests_sent' = {}
             /\ pending_outgoing_messages' = <<>>
             /\ ~subscribed'
             /\ connection_status' = Connecting
             /\ chat_group' = to_chat_group(room')
             /\ task_state' = "starting"
             /\ command_rx' = <<>>
             /\ event_rx' = <<>>
             /\ pc' = "update"]_vars
    /\ [](NothingHandledYet /\ command_rx # <<>> =>
             Head(command_rx) = Cmd_Subscribe(to_chat_group(room)))
    /\ [](NothingHandledYet /\ ~subscribed => command_rx = <<>>)
    /\ [][(TickBegins /\ NothingHandledYet /\ ~subscribed /\ task_state # "ended") =>
             /\ command_rx' # <<>>
             /\ Head(command_rx') = Cmd_Subscribe(to_chat_group(room))]_vars
    /\ [][(NothingHandledYet /\ Handles("SendMessage")) => FALSE]_vars

\* The user joined a room by its identifier and submitted a message; the
\* task, which has started, has taken no command yet: the Subscribe for the
\* topic of the room is ahead of the SendMessage.
C36_Witness ==
    /\ NothingHandledYet
    /\ task_state = "running"
    /\ room = from_identifier(<<"a", "-">> \o UuidText \o <<"-", "z", "-", "z">>).room
    /\ Len(command_rx) = 2
    /\ command_rx[1] = Cmd_Subscribe(GroupB)
    /\ command_rx[2].type = "SendMessage"

\* ------------------------------------------------------------------------
\* Quiescent states
\* ------------------------------------------------------------------------
\* Nothing is on its way between the session, the task and the worker, and
\* the session is not about to subscribe.
Quiescent ==
    /\ command_rx = <<>>
    /\ event_rx = <<>>
    /\ request_rx = <<>>
    /\ response_rx = <<>>
    /\ worker_state # "translating"
    /\ task_state \in {"running", "ended"}
    /\ subscribed \/ task_state = "ended"

\* C37: in a quiescent state the status is Connected exactly if the task is
\* running and holds a subscription.
C37_ConnectedIffSubscriptionHeld ==
    Quiescent =>
        (connection_status = Connected
            <=> (task_state = "running" /\ current_subscription # 0))

\* The session is connected through its second subscription, after the
\* first one was lost, and nothing is on its way.
C37_Witness ==
    /\ Quiescent
    /\ connection_status = Connected
    /\ task_state = "running"
    /\ Len(streams) = 2
    /\ streams[1].ended
    /\ current_subscription = 2
    /\ pc = "poll"

\* ------------------------------------------------------------------------
\* Liveness of translation
\* ------------------------------------------------------------------------
InList(id) == \E k \in 1..Len(messages) : messages[k].id = id

Translated(id) ==
    \E k \in 1..Len(messages) : messages[k].id = id /\ messages[k].translation.some

\* The message has no translation and its request is still to be made, is
\* queued, is being translated, or its response is queued.
Awaited(id) ==
    /\ InList(id)
    /\ ~Translated(id)
    /\ \/ id \notin translation_requests_sent
       \/ \E i \in 1..Len(request_rx) : request_rx[i].message_id = id
       \/ worker_state = "translating" /\ worker_request.message_id = id
       \/ \E i \in 1..Len(response_rx) : response_rx[i].message_id = id

\* C38: with AI enabled, the translator initialized and no inference
\* failing, under fair ticks and a fair worker: a message is awaited from its
\* creation on (every message without a translation is, until the target
\* language is set), every awaited message eventually has a translation, and
\* a translation that is set stays set in every step that does not set the
\* target language.
C38_EveryMessageTranslated ==
    /\ \A id \in MessageIds : Awaited(id) ~> Translated(id)
    /\ [](lang_changes = 0 =>
             \A id \in MessageIds : InList(id) /\ ~Translated(id) => Awaited(id))
    /\ [][\A k \in (Len(messages) + 1)..Len(messages') :
             \E id \in MessageIds : id = messages'[k].id /\ Awaited(id)']_vars
    /\ [][lang_changes' = lang_changes =>
             \A k \in 1..Len(messages) :
                 messages[k].translation.some =>
                     /\ messages'[k].translation = messages[k].translation
                     /\ messages'[k].id = messages[k].id]_vars

\* A local and a received message both have their translations, in the
\* language that was set while they were awaited.
C38_Witness ==
    /\ Len(messages) = 2
    /\ lang_changes = 1
    /\ \E k \in 1..2 : messages[k].sender = Username
    /\ \E k \in 1..2 : messages[k].sender # Username
    /\ \A k \in 1..2 : messages[k].translation.some
    /\ worker_state = "idle"

\* ------------------------------------------------------------------------
\* The requested set
\* ------------------------------------------------------------------------
\* C39: the requested set holds only ids of messages of the list; every
\* message with a translation has its id in the set; and a step that adds an
\* id to the set appends a TranslationRequest for that id to the request
\* queue, so that no id is added when the send fails.
C39_RequestedSet ==
    /\ [](\A id \in translation_requests_sent : InList(id))
    /\ [](\A k \in 1..Len(messages) :
             messages[k].translation.some => messages[k].id \in translation_requests_sent)
    /\ [][\A id \in translation_requests_sent' \ translation_requests_sent :
             /\ TickBegins
             /\ RequestChannelOpen
             /\ \E i \in (Len(request_rx) + 1)..Len(request_rx') :
                   request_rx'[i].message_id = id]_vars

\* The first message was requested while the worker was starting; the worker
\* then returned, the send for the second message failed and its id is not
\* in the set.
C39_Witness ==
    /\ worker_state = "exited"
    /\ Len(messages) = 2
    /\ translation_requests_sent = {messages[1].id}
    /\ ~messages[2].translation.some
    /\ pc = "poll"

\* C40: once the ChatState is dropped (every sender of the command queue is
\* gone) a running network task still takes the queued commands one by one
\* from the head of the queue and handles each; with the queue empty it can
\* return at once, whether or not it holds an inbound stream that is still
\* open, and it returns only then; the step in which it returns puts no
\* event on the event queue, and nothing is added to the command queue.
SendersDropped == app_state = "Quit"

TaskReturns == task_state = "running" /\ task_state' = "ended"

C40_ClosedCommandQueueEndsTask ==
    /\ []((SendersDropped /\ task_state = "running") =>
             IF command_rx # <<>>
             THEN ENABLED TaskRecvCommand /\ ~ENABLED TaskRecvNone
             ELSE ENABLED TaskRecvNone)
    /\ [][SendersDropped =>
             /\ command_rx' # command_rx =>
                   /\ command_rx # <<>>
                   /\ command_rx' = Tail(command_rx)
                   /\ handle_command(Head(command_rx))
             /\ TaskReturns => command_rx = <<>> /\ event_rx' = event_rx]_vars

\* The task has returned after the quit, having sent a queued message, while
\* a stream handed out to it was still open.
C40_Witness ==
    /\ SendersDropped
    /\ task_state = "ended"
    /\ to_network # <<>>
    /\ \E i \in 1..Len(streams) : ~streams[i].ended
    /\ ~\E i \in 1..Len(event_rx) :
           event_rx[i].type = "Error" /\ event_rx[i].kind = "ChannelClosed"

\* The step is a frame of the chat screen.
Renders == pc = "draw" /\ pc' = "poll"

\* What a frame leaves alone: the message list with its translation fields,
\* the requested-id set, the subscription-attempted flag, the connection
\* status, the outgoing queue, the choice of panes, and every queue.
RenderKeeps ==
    UNCHANGED <<messages, next_id, chat_target_language, translation_requests_sent,
                subscribed, connection_status, pending_outgoing_messages,
                show_translations, command_rx, request_rx, event_rx, response_rx>>

\* The offset is on a page of the content: a frame of the page height has
\* nothing to bring back.
WithinContent(state, msgs, page) ==
    state.offset <= saturating_sub(IF Len(msgs) > 1 THEN Len(msgs) ELSE 1, page)

====
